---- MODULE Spec2Model ----
(***************************************************************************)
(* Model of update_play_prices.py: the merge of a regional price list into *)
(* a base plan's regional configs, and the apply step of main() with its   *)
(* error-driven recovery (clamp to bounds / remove region) and single      *)
(* retry.                                                                  *)
(*                                                                         *)
(* Python dicts are functions from key strings to values: a key that the   *)
(* dict does not hold is outside the DOMAIN.  Region codes are the numbers *)
(* 1..NumRegions, ordered as the two-letter codes are ordered by sorted(). *)
(* Money units are the integer whose decimal text the code stores.         *)
(***************************************************************************)
EXTENDS Integers, Sequences, FiniteSets, TLC

VARIABLES
    pc,                       \* the position of main(), or of the function under study
    base_plan,                \* regionalConfigs of the fetched base plan
    new_prices,               \* filtered_regional_prices, the list handed to merge
    args,                     \* the command-line arguments read so far
    merged_regional_configs,  \* the merged set, mutated in place by the recovery
    start,                    \* the loop variable of the batching loop
    details_text,             \* the message of the HttpError being handled
    calls,                    \* history: every call of patch_base_plan_regional_configs
    before_configs,           \* history: the merged set as the recovery found it
    log,                      \* history: the recovery functions called, and whether they acted
    migration,                \* history: the migration step's requests and warning
    preview,                  \* the four lists of print_price_changes_preview
    second_merge,             \* the plan and the list given to a second merge call, and its result
    merge_inputs,             \* history: the plan and the list as the first merge call got them
    response,                 \* the platform's answer to convertRegionPrices
    oracle_result,            \* the oracle function's target region, and what it returned or raised
    regional_prices,          \* the normalized prices, before the billable-region filter
    region_currency_map,      \* the result of fetch_billable_regions_and_currencies
    conversions,              \* history: what convert_amount returned for each price
    normalized,               \* history: the prices as the Normalizer built them
    price_str,                \* the price text of a CSV row
    units_nanos,              \* what convert_price_to_units_nanos returned or raised
    csv_rows,                 \* the data rows of the CSV file
    rows                      \* what read_csv_prices returned or raised

\* The variables of the stages before the merge, and of the functions studied
\* on their own.
mergeVars == <<second_merge, merge_inputs>>
oracleVars == <<response, oracle_result>>
filterVars == <<regional_prices, region_currency_map, conversions, normalized>>
normalizerVars == <<price_str, units_nanos>>
readerVars == <<csv_rows, rows>>

vars == <<pc, base_plan, new_prices, args, merged_regional_configs,
          start, details_text, calls, before_configs, log, migration,
          preview, mergeVars, oracleVars, filterVars, normalizerVars, readerVars>>

(***************************************************************************)
(* Bounds of the model.                                                    *)
(***************************************************************************)
NumRegions == 3
MaxPrices == 2
MaxBatch == 2
MaxFracDigits == 30

Regions == 1..NumRegions

(***************************************************************************)
(* dict helpers                                                            *)
(***************************************************************************)
EmptyDict == [k \in {} |-> 0]

Has(d, k) == k \in DOMAIN d

Put(d, k, v) == [x \in (DOMAIN d) \cup {k} |-> IF x = k THEN v ELSE d[x]]

RegionCodes(configs) == {configs[i]["regionCode"] : i \in DOMAIN configs}

(***************************************************************************)
(* RegionalPrice values and the configs a base plan may hold.              *)
(***************************************************************************)
RegionalPrice(region, currency, units, nanos) ==
    [region_iso2 |-> region, currency_code |-> currency, units |-> units, nanos |-> nanos]

Moneys == { [currencyCode |-> "USD", units |-> 9, nanos |-> 990000000],
            [currencyCode |-> "EUR", units |-> 10, nanos |-> 0] }

RegionalPrices ==
    { RegionalPrice(r, m["currencyCode"], m["units"], m["nanos"]) : r \in Regions, m \in Moneys }

ExistingConfigs(r) ==
    { [regionCode |-> r,
       price |-> [currencyCode |-> "USD", units |-> 9, nanos |-> 990000000],
       newSubscriberAvailability |-> "NEW_SUBSCRIBERS_CANNOT_PURCHASE",
       taxAndComplianceSettings |-> "tax"],
      [regionCode |-> r,
       price |-> [currencyCode |-> "EUR", units |-> 10, nanos |-> 0],
       newSubscriberAvailability |-> "NEW_SUBSCRIBERS_CAN_PURCHASE"],
      [regionCode |-> r,
       newSubscriberAvailability |-> "NEW_SUBSCRIBERS_CANNOT_PURCHASE",
       taxAndComplianceSettings |-> "tax"],
      [regionCode |-> r,
       price |-> [currencyCode |-> "USD", units |-> 9, nanos |-> 990000000]] }

RECURSIVE AscendingFrom(_, _)
AscendingFrom(f, keys) ==
    IF keys = {} THEN <<>>
    ELSE LET k == CHOOSE x \in keys : \A y \in keys : x <= y
         IN <<f[k]>> \o AscendingFrom(f, keys \ {k})

Reverse(s) == [i \in 1..Len(s) |-> s[Len(s) + 1 - i]]

\* The regionalConfigs lists the platform may return: one config per region of
\* any subset of the regions, in ascending or in descending order.
ExistingPlans ==
    UNION { UNION { { AscendingFrom(f, S), Reverse(AscendingFrom(f, S)) }
                    : f \in { g \in [S -> UNION {ExistingConfigs(r) : r \in S}] :
                                \A r \in S : g[r] \in ExistingConfigs(r) } }
            : S \in SUBSET Regions }

PriceLists == UNION { [1..n -> RegionalPrices] : n \in 0..MaxPrices }

(***************************************************************************)
(* merge_regional_configs                                                  *)
(***************************************************************************)
\* by_region as built by the dict comprehension: the last config of a region wins.
ByRegionOf(existing) ==
    [r \in RegionCodes(existing) |->
        existing[CHOOSE i \in DOMAIN existing :
                    /\ existing[i]["regionCode"] = r
                    /\ \A j \in DOMAIN existing : existing[j]["regionCode"] = r => j <= i]]

\* Mutant: the config is built afresh instead of from a copy of the existing one.
PreservedFresh(by_region, rp, enable_availability) ==
    LET withCode == Put(EmptyDict, "regionCode", rp.region_iso2)
        withPrice == Put(withCode, "price",
                         [currencyCode |-> rp.currency_code, units |-> rp.units, nanos |-> rp.nanos])
    IN IF enable_availability
       THEN Put(withPrice, "newSubscriberAvailability", "NEW_SUBSCRIBERS_CAN_PURCHASE")
       ELSE withPrice

Preserved(by_region, rp, enable_availability) ==
    LET copy == IF rp.region_iso2 \in DOMAIN by_region THEN by_region[rp.region_iso2] ELSE EmptyDict
        withCode == Put(copy, "regionCode", rp.region_iso2)
        withPrice == Put(withCode, "price",
                         [currencyCode |-> rp.currency_code, units |-> rp.units, nanos |-> rp.nanos])
    IN IF enable_availability
       THEN Put(withPrice, "newSubscriberAvailability", "NEW_SUBSCRIBERS_CAN_PURCHASE")
       ELSE withPrice

RECURSIVE MergeLoop(_, _, _, _)
MergeLoop(by_region, prices, enable_availability, i) ==
    IF i > Len(prices) THEN by_region
    ELSE MergeLoop(Put(by_region, prices[i].region_iso2,
                       Preserved(by_region, prices[i], enable_availability)),
                   prices, enable_availability, i + 1)

\* Mutant: sorted(..., reverse=True).
SortedDescending(by_region) == Reverse(AscendingFrom(by_region, DOMAIN by_region))

SortedByRegion(by_region) == AscendingFrom(by_region, DOMAIN by_region)

merge_regional_configs(existing, prices, enable_availability) ==
    SortedByRegion(MergeLoop(ByRegionOf(existing), prices, enable_availability, 1))

\* Mutant: "preserved = by_region.get(rp.region_iso2, {})", without dict(): the
\* loop writes to the dicts of the base plan.
ExistingAfterMergeAliased(existing, prices, enable_availability) ==
    LET final == MergeLoop(ByRegionOf(existing), prices, enable_availability, 1)
    IN [i \in DOMAIN existing |->
          IF \A j \in DOMAIN existing :
                existing[j]["regionCode"] = existing[i]["regionCode"] => j <= i
          THEN final[existing[i]["regionCode"]]
          ELSE existing[i]]

\* The regionalConfigs of the base plan after the call: line 608 copies the
\* existing dict and lines 609-617 write to the copy, line 605 builds a new
\* dict of the regions.
ExistingAfterMerge(existing, prices, enable_availability) == existing

(***************************************************************************)
(* Rejection messages.  A message is the parts of the rejection text that  *)
(* the regular expressions of the recovery code read:                      *)
(*   region_code : R of the first "Region code R" in the text, 0 when the  *)
(*                 text holds none;                                        *)
(*   price_for   : R of the first "Price for R" in the text, 0 when none;  *)
(*   between     : "none"  - the text does not hold "must be between",     *)
(*                 "plain" - it holds "must be between" but not in the     *)
(*                           form the clamp expression matches,            *)
(*                 "shape" - "Price for R must be between MIN and MAX,     *)
(*                           found F" with R = price_for;                  *)
(*   min, max, found : the three amounts of a "shape" message: the text as *)
(*                 written (a sequence of characters, the code's only      *)
(*                 input) and the amount the platform means by it (units,  *)
(*                 nanos), which the code never sees.                      *)
(***************************************************************************)
NBSP == "NBSP"      \* the character U+00A0 (no-break space)
NNBSP == "NNBSP"    \* the character U+202F (narrow no-break space)

Amount(text, units, nanos) == [text |-> text, units |-> units, nanos |-> nanos]

NoAmount == Amount(<<>>, 0, 0)

MinAmounts ==
    { Amount(<<"3", "0">>, 30, 0),
      Amount(<<"F", " ", "C", "F", "A", " ", "3", "0">>, 30, 0),
      Amount(<<"0", ".", "5">>, 0, 500000000) }

MaxAmounts ==
    { Amount(<<"6", "2", "7", "3", "4", "1">>, 627341, 0),
      Amount(<<"6", "2", "7", ",", "3", "4", "1">>, 627341, 0),
      Amount(<<"6", "2", "7", " ", "3", "4", "1">>, 627341, 0),
      Amount(<<"6", "2", "7", NBSP, "3", "4", "1">>, 627341, 0),
      Amount(<<"6", "2", "7", NNBSP, "3", "4", "1">>, 627341, 0),
      Amount(<<"1", "0", ".", "2", "5">>, 10, 250000000) }

FoundAmounts ==
    { Amount(<<"2", "7">>, 27, 0),
      Amount(<<"7", "0", "0", "0", "0", "0">>, 700000, 0),
      Amount(<<"1", "0", "0">>, 100, 0),
      Amount(<<"0", ".", "2", "5">>, 0, 250000000),
      Amount(<<"n", "/", "a">>, -1, 0) }   \* no amount is meant

Message(rc, pf, between, lo, hi, found) ==
    [region_code |-> rc, price_for |-> pf, between |-> between,
     min |-> lo, max |-> hi, found |-> found]

NoMessage == Message(0, 0, "none", NoAmount, NoAmount, NoAmount)

\* Regions a message may name: those of the model and one more, which no
\* merged set holds.
NamedRegions == 1..(NumRegions + 1)

\* "Price for R must be between MIN and MAX, found F", every amount text.
\* The order of the amounts the platform means.
AmountLess(a, b) == a.units < b.units \/ (a.units = b.units /\ a.nanos < b.nanos)

ShapeMessages ==
    { m \in { Message(0, r, "shape", lo, hi, f) :
                r \in NamedRegions, lo \in MinAmounts, hi \in MaxAmounts, f \in FoundAmounts } :
        AmountLess(m.min, m.max) }

PlainMin == Amount(<<"3", "0">>, 30, 0)
PlainMax == Amount(<<"6", "2", "7", "3", "4", "1">>, 627341, 0)
PlainFound == Amount(<<"2", "7">>, 27, 0)

\* Every combination of the three parts, with one amount text.
MixedMessages ==
    { Message(rc, pf, "none", NoAmount, NoAmount, NoAmount) :
        rc \in {0} \cup NamedRegions, pf \in {0} \cup NamedRegions }
    \cup
    { Message(rc, pf, "plain", NoAmount, NoAmount, NoAmount) :
        rc \in {0} \cup NamedRegions, pf \in {0} \cup NamedRegions }
    \cup
    { Message(rc, pf, "shape", PlainMin, PlainMax, PlainFound) :
        rc \in {0} \cup NamedRegions, pf \in NamedRegions }

Messages == ShapeMessages \cup MixedMessages

(***************************************************************************)
(* The regular expressions.                                                *)
(***************************************************************************)
\* "must be between" in details_text
ContainsMustBeBetween(msg) == msg.between # "none"

\* re.search(r"Price for\s+([A-Z]{2})\s+must be between\s+(.+?)\s+and\s+(.+?),\s+found\s+(.+)$")
ClampMatches(msg) == msg.between = "shape" /\ msg.price_for # 0

\* re.search(r"Region code\s+([A-Z]{2})\b"), then re.search(r"Price for\s+([A-Z]{2})\b")
\* Mutant: the two expressions tried in the other order.
RemoveRegionPriceForFirst(msg) ==
    IF msg.price_for # 0 THEN msg.price_for ELSE msg.region_code

RemoveRegionOf(msg) ==
    IF msg.region_code # 0 THEN msg.region_code ELSE msg.price_for

Digits == {"0", "1", "2", "3", "4", "5", "6", "7", "8", "9"}

DigitVal(c) ==
    CASE c = "0" -> 0 [] c = "1" -> 1 [] c = "2" -> 2 [] c = "3" -> 3 [] c = "4" -> 4
      [] c = "5" -> 5 [] c = "6" -> 6 [] c = "7" -> 7 [] c = "8" -> 8 [] c = "9" -> 9

\* str.replace of one character
ReplaceChar(s, from, to) == [i \in DOMAIN s |-> IF s[i] = from THEN to ELSE s[i]]

NormalizeSpaces(s) == ReplaceChar(ReplaceChar(s, NNBSP, " "), NBSP, " ")

\* The last index of the run of digits that starts at index p.
RECURSIVE DigitRunEnd(_, _)
DigitRunEnd(s, p) ==
    IF p + 1 <= Len(s) /\ s[p + 1] \in Digits THEN DigitRunEnd(s, p + 1) ELSE p

\* re.search(r"([0-9]+(?:[\.,][0-9]+)?)", s): the leftmost match, greedy.
NumericToken(s) ==
    IF \A i \in DOMAIN s : s[i] \notin Digits THEN [matched |-> FALSE, token |-> <<>>]
    ELSE LET p == CHOOSE i \in DOMAIN s :
                     s[i] \in Digits /\ \A j \in DOMAIN s : s[j] \in Digits => i <= j
             e == DigitRunEnd(s, p)
             withFraction == /\ e + 2 <= Len(s)
                             /\ s[e + 1] \in {".", ","}
                             /\ s[e + 2] \in Digits
             last == IF withFraction THEN DigitRunEnd(s, e + 2) ELSE e
         IN [matched |-> TRUE, token |-> SubSeq(s, p, last)]

RECURSIVE DigitsToInt(_)
DigitsToInt(ds) ==
    IF ds = <<>> THEN 0
    ELSE 10 * DigitsToInt(SubSeq(ds, 1, Len(ds) - 1)) + DigitVal(ds[Len(ds)])

\* Decimal(raw) of a token digits[.digits]: the integer part and the digits of
\* the fraction.
ToDecimal(raw) ==
    LET dot == IF \E i \in DOMAIN raw : raw[i] = "."
               THEN CHOOSE i \in DOMAIN raw : raw[i] = "."
               ELSE Len(raw) + 1
    IN [int |-> DigitsToInt(SubSeq(raw, 1, dot - 1)),
        frac |-> SubSeq(raw, dot + 1, Len(raw))]

FracDigit(d, i) == IF i <= Len(d.frac) THEN DigitVal(d.frac[i]) ELSE 0

FracLess(a, b) ==
    \E i \in 1..(Len(a.frac) + Len(b.frac)) :
        /\ FracDigit(a, i) < FracDigit(b, i)
        /\ \A j \in 1..(i - 1) : FracDigit(a, j) = FracDigit(b, j)

DecimalLess(a, b) == a.int < b.int \/ (a.int = b.int /\ FracLess(a, b))

NanosScale == 9

RECURSIVE Pow10(_)
Pow10(n) == IF n = 0 THEN 1 ELSE 10 * Pow10(n - 1)

RECURSIVE FracNanos(_, _)
\* quantize(Decimal("0.000000001"), ROUND_DOWN) * 10**9: the first nine digits
FracNanos(d, i) ==
    IF i > NanosScale THEN 0
    ELSE FracDigit(d, i) * Pow10(NanosScale - i) + FracNanos(d, i + 1)

\* The amount read from one captured group: None (matched = FALSE) or a Decimal.
ParseAmount(text) ==
    LET tok == NumericToken(NormalizeSpaces(text))
    IN IF tok.matched
       THEN [matched |-> TRUE, value |-> ToDecimal(ReplaceChar(tok.token, ",", "."))]
       ELSE [matched |-> FALSE, value |-> [int |-> 0, frac |-> <<>>]]

ClampTarget(min_value, max_value, found_value) ==
    IF DecimalLess(found_value, min_value) THEN min_value
    ELSE IF DecimalLess(max_value, found_value) THEN max_value
    ELSE found_value

\* The index of the first config the loop adjusts, 0 when there is none.
ClampIndex(region, configs) ==
    LET hits == { i \in DOMAIN configs :
                    configs[i]["regionCode"] = region /\ Has(configs[i], "price") }
    IN IF hits = {} THEN 0 ELSE CHOOSE i \in hits : \A j \in hits : i <= j

\* clamp_config_from_error_message: the returned flag and the list as left.
clamp_config_from_error_message(msg, configs) ==
    IF ~ClampMatches(msg) THEN [adjusted |-> FALSE, configs |-> configs]
    ELSE LET lo == ParseAmount(msg.min.text)
             hi == ParseAmount(msg.max.text)
             fnd == ParseAmount(msg.found.text)
             i == ClampIndex(msg.price_for, configs)
         IN IF ~lo.matched \/ ~hi.matched \/ ~fnd.matched \/ i = 0
            THEN [adjusted |-> FALSE, configs |-> configs]
            ELSE LET target == ClampTarget(lo.value, hi.value, fnd.value)
                     price == Put(Put(configs[i]["price"], "units", target.int),
                                  "nanos", FracNanos(target, 1))
                 IN [adjusted |-> TRUE,
                     configs |-> [configs EXCEPT ![i] = Put(configs[i], "price", price)]]

\* The list comprehension of remove_region_from_configs.
WithoutRegion(configs, region) ==
    SelectSeq(configs, LAMBDA cfg : cfg["regionCode"] # region)

\* remove_region_from_configs: the returned region (0 for None) and the list as left.
remove_region_from_configs(msg, configs) ==
    LET region == RemoveRegionOf(msg)
    IN IF region = 0 THEN [removed |-> 0, configs |-> configs]
       ELSE LET kept == WithoutRegion(configs, region)
            IN [removed |-> IF Len(kept) < Len(configs) THEN region ELSE 0,
                configs |-> kept]

\* The return of a function: the value in a one-element tuple (the empty
\* tuple for None), or the exception it raised.
Returned(value) == [called |-> TRUE, raised |-> FALSE, value |-> <<value>>]
ReturnedNone == [called |-> TRUE, raised |-> FALSE, value |-> <<>>]
Raised == [called |-> TRUE, raised |-> TRUE, value |-> <<>>]

(***************************************************************************)
(* convert_price_to_units_nanos.  A price text is [-]digits[.digits]; a    *)
(* Decimal is its sign, the integer of its whole part and the digits of    *)
(* its fraction.  The arithmetic of Decimal rounds its result to the       *)
(* precision of the context, 28 significant digits, half to even; the      *)
(* constructor, to_integral_value and quantize do not.                     *)
(***************************************************************************)
ContextPrecision == 28

DigitChar(n) ==
    CASE n = 0 -> "0" [] n = 1 -> "1" [] n = 2 -> "2" [] n = 3 -> "3" [] n = 4 -> "4"
      [] n = 5 -> "5" [] n = 6 -> "6" [] n = 7 -> "7" [] n = 8 -> "8" [] n = 9 -> "9"

\* Decimal(price_str)
DecimalOf(text) ==
    LET negative == text # <<>> /\ text[1] = "-"
        body == IF negative THEN Tail(text) ELSE text
        d == ToDecimal(body)
    IN [negative |-> negative, int |-> d.int, frac |-> d.frac]

IsZero(d) == d.int = 0 /\ \A i \in DOMAIN d.frac : d.frac[i] = "0"

\* price < 0
IsNegative(d) == d.negative /\ ~IsZero(d)

\* The digits plus one unit in the last place: the carry out of the first
\* place, and the digits.
RECURSIVE Increment(_)
Increment(ds) ==
    IF ds = <<>> THEN [carry |-> 1, digits |-> <<>>]
    ELSE LET n == Len(ds)
         IN IF ds[n] # "9"
            THEN [carry |-> 0,
                  digits |-> SubSeq(ds, 1, n - 1) \o <<DigitChar(DigitVal(ds[n]) + 1)>>]
            ELSE LET r == Increment(SubSeq(ds, 1, n - 1))
                 IN [carry |-> r.carry, digits |-> r.digits \o <<"0">>]

\* The number of zeros that lead a sequence of digits.
RECURSIVE LeadingZeros(_)
LeadingZeros(ds) ==
    IF ds = <<>> \/ ds[1] # "0" THEN 0 ELSE 1 + LeadingZeros(Tail(ds))

\* price - units_part for a price that is not negative: the fraction 0.frac,
\* rounded half to even to ContextPrecision significant digits.  The result
\* is carry + 0.digits.
SubtractWhole(frac) ==
    LET keep == LeadingZeros(frac) + ContextPrecision
    IN IF Len(frac) <= keep THEN [carry |-> 0, digits |-> frac]
       ELSE LET kept == SubSeq(frac, 1, keep)
                next == DigitVal(frac[keep + 1])
                beyond == \E i \in (keep + 2)..Len(frac) : frac[i] # "0"
                odd == DigitVal(frac[keep]) % 2 = 1
                up == next > 5 \/ (next = 5 /\ (beyond \/ odd))
            IN IF up THEN Increment(kept) ELSE [carry |-> 0, digits |-> kept]

\* Lines 140-147: (units, nanos), or the ValueError of line 142.
convert_price_to_units_nanos(text) ==
    LET price == DecimalOf(text)
    IN IF IsNegative(price) THEN Raised
       ELSE LET fractional == SubtractWhole(price.frac)
                nanos == fractional.carry * Pow10(NanosScale)
                         + FracNanos([int |-> 0, frac |-> fractional.digits], 1)
            IN Returned([units |-> price.int, nanos |-> nanos])

(***************************************************************************)
(* print_price_changes_preview: the classification of the merged configs.  *)
(***************************************************************************)
\* d.get(k): the value in a one-element tuple, the empty tuple for None.
Get(d, k) == IF Has(d, k) THEN <<d[k]>> ELSE <<>>

\* config.get("price", {})
PriceOf(config) == IF Has(config, "price") THEN config["price"] ELSE EmptyDict

\* Lines 365-369
PriceChanged(existing_config, config) ==
    LET existing_price == PriceOf(existing_config)
        new_price == PriceOf(config)
    IN \/ Get(existing_price, "currencyCode") # Get(new_price, "currencyCode")
       \/ Get(existing_price, "units") # Get(new_price, "units")
       \/ Get(existing_price, "nanos") # Get(new_price, "nanos")

\* Line 372
AvailabilityChanged(existing_config, config, enable_availability) ==
    /\ enable_availability
    /\ Get(existing_config, "newSubscriberAvailability") # Get(config, "newSubscriberAvailability")

\* Line 353: existing_configs.get(region_code) is None (a config that the
\* dict holds has a regionCode, so it is not an empty dict).
InNewRegions(existing_configs, config, enable_availability) ==
    config["regionCode"] \notin DOMAIN existing_configs

\* Line 374
InPriceChanges(existing_configs, config, enable_availability) ==
    /\ config["regionCode"] \in DOMAIN existing_configs
    /\ PriceChanged(existing_configs[config["regionCode"]], config)

\* Mutant: "if availability_changed" in the place of "elif availability_changed".
InAvailabilityChangesAlso(existing_configs, config, enable_availability) ==
    /\ config["regionCode"] \in DOMAIN existing_configs
    /\ AvailabilityChanged(existing_configs[config["regionCode"]], config, enable_availability)

\* Line 382
InAvailabilityChanges(existing_configs, config, enable_availability) ==
    /\ config["regionCode"] \in DOMAIN existing_configs
    /\ ~PriceChanged(existing_configs[config["regionCode"]], config)
    /\ AvailabilityChanged(existing_configs[config["regionCode"]], config, enable_availability)

\* Line 389
InNoChanges(existing_configs, config, enable_availability) ==
    /\ config["regionCode"] \in DOMAIN existing_configs
    /\ ~PriceChanged(existing_configs[config["regionCode"]], config)
    /\ ~AvailabilityChanged(existing_configs[config["regionCode"]], config, enable_availability)

\* The "region" entries of the items of a list, in the order of the appends.
RegionsOf(configs) == [i \in DOMAIN configs |-> configs[i]["regionCode"]]

NoPreview ==
    [printed |-> FALSE, new_regions |-> <<>>, price_changes |-> <<>>,
     availability_changes |-> <<>>, no_changes |-> <<>>]

\* The four lists after the loop of lines 346-393.
print_price_changes_preview(existing, new_configs, enable_availability) ==
    LET existing_configs == ByRegionOf(existing)
    IN [printed |-> TRUE,
        new_regions |->
            RegionsOf(SelectSeq(new_configs,
                LAMBDA c : InNewRegions(existing_configs, c, enable_availability))),
        price_changes |->
            RegionsOf(SelectSeq(new_configs,
                LAMBDA c : InPriceChanges(existing_configs, c, enable_availability))),
        availability_changes |->
            RegionsOf(SelectSeq(new_configs,
                LAMBDA c : InAvailabilityChanges(existing_configs, c, enable_availability))),
        no_changes |->
            RegionsOf(SelectSeq(new_configs,
                LAMBDA c : InNoChanges(existing_configs, c, enable_availability)))]

(***************************************************************************)
(* The oracle: three functions around one platform call,                   *)
(* convertRegionPrices.  The call raises HttpError or returns the parsed   *)
(* JSON body.  A JSON value is                                             *)
(*   Dict(f)  - an object, f a function from its keys to its values,       *)
(*   Null     - null (None),                                               *)
(*   Other    - a value that is not an object and is truthy: a non-empty   *)
(*              list or string, a number.  It has no .get and no .items:   *)
(*              calling them raises AttributeError.                        *)
(* A price object holds its currencyCode, units and nanos as they are.     *)
(***************************************************************************)
Dict(f) == [type |-> "dict", val |-> f]
Null == [type |-> "null"]
Other == [type |-> "other"]
HttpError == [type |-> "http_error"]

IsDict(v) == v.type = "dict"

\* v.get(k) of an object v: None for a key it does not hold.
JsonGet(v, k) == IF k \in DOMAIN v.val THEN v.val[k] ELSE Null

\* "x or {}" of a JSON value x
OrEmpty(v) == IF v = Null \/ (IsDict(v) /\ DOMAIN v.val = {}) THEN Dict(EmptyDict) ELSE v

PriceObjects ==
    { EmptyDict,
      [currencyCode |-> "EUR", units |-> 12, nanos |-> 500000000],
      [currencyCode |-> "USD"],
      [units |-> 12] }

PriceValues == {Null, Other} \cup { Dict(m) : m \in PriceObjects }

\* What convertedRegionPrices may hold for one region.
RegionData ==
    {Null, Other, Dict(EmptyDict)} \cup { Dict([price |-> v]) : v \in PriceValues }

ConvertedMaps ==
    UNION { { Dict(f) : f \in [S -> RegionData] } : S \in SUBSET Regions }

RegionsVersions == { Dict([version |-> "2022/02"]) }

ResponseBodies ==
    { Dict(EmptyDict) }
    \cup { Dict([regionsVersion |-> v]) : v \in RegionsVersions \cup {Null} }
    \cup { Dict([convertedRegionPrices |-> c]) : c \in {Null, Other} \cup ConvertedMaps }
    \cup { Dict([regionsVersion |-> v, convertedRegionPrices |-> c]) :
             v \in RegionsVersions, c \in {Other} \cup ConvertedMaps }

ConvertResponses == {HttpError, Other} \cup ResponseBodies

\* Lines 189-209
fetch_regions_version(resp) ==
    IF resp = HttpError THEN ReturnedNone
    ELSE IF IsDict(resp) /\ JsonGet(resp, "regionsVersion") # Null
         THEN Returned(JsonGet(resp, "regionsVersion"))
         ELSE ReturnedNone

\* Lines 235-238 for one item of convertedRegionPrices: whether an attribute
\* access raises.
BillableItemRaises(data) ==
    \/ ~IsDict(data)
    \/ ~IsDict(OrEmpty(JsonGet(data, "price")))

\* currency = price.get("currencyCode"), None as the empty tuple
BillableItemCurrency(data) == Get(OrEmpty(JsonGet(data, "price")).val, "currencyCode")

\* Lines 217-241
fetch_billable_regions_and_currencies(resp) ==
    IF resp = HttpError THEN Returned(EmptyDict)
    ELSE IF ~IsDict(resp) THEN Raised
    ELSE LET converted == OrEmpty(JsonGet(resp, "convertedRegionPrices"))
         IN IF ~IsDict(converted) THEN Raised
            ELSE IF \E r \in DOMAIN converted.val : BillableItemRaises(converted.val[r])
                 THEN Raised
            ELSE LET billable == { r \in DOMAIN converted.val :
                                     BillableItemCurrency(converted.val[r]) # <<>> }
                 IN Returned([r \in billable |-> BillableItemCurrency(converted.val[r])[1]])

\* Lines 256-276
convert_amount(resp, target_region) ==
    IF resp = HttpError THEN ReturnedNone
    ELSE IF ~IsDict(resp) THEN Raised
    ELSE LET prices == OrEmpty(JsonGet(resp, "convertedRegionPrices"))
         IN IF ~IsDict(prices) THEN Raised
            ELSE LET converted == JsonGet(prices, target_region)
                 IN IF converted = Null \/ converted = Dict(EmptyDict) THEN ReturnedNone
                    ELSE IF ~IsDict(converted) THEN Raised
                    ELSE IF IsDict(JsonGet(converted, "price"))
                         THEN Returned(JsonGet(converted, "price").val)
                         ELSE ReturnedNone

(***************************************************************************)
(* The values of the variables of a stage that a specification leaves out. *)
(***************************************************************************)
NoSecondMerge == [called |-> FALSE, base_plan |-> <<>>, prices |-> <<>>, merged |-> <<>>]

NoResponse == [type |-> "none"]

NoReturn == [called |-> FALSE, raised |-> FALSE, value |-> <<>>]

PreviewIdle == preview = NoPreview

NoMergeInputs == [base_plan |-> <<>>, prices |-> <<>>]

SecondMergeIdle == second_merge = NoSecondMerge /\ merge_inputs = NoMergeInputs

NoOracleCall == [target_region |-> 0, ret |-> NoReturn]

OracleIdle == response = NoResponse /\ oracle_result = NoOracleCall

FilterIdle ==
    /\ regional_prices = <<>>
    /\ region_currency_map = EmptyDict
    /\ conversions = <<>>
    /\ normalized = <<>>

NormalizerIdle == price_str = <<>> /\ units_nanos = NoReturn

ReaderIdle == csv_rows = <<>> /\ rows = NoReturn

(***************************************************************************)
(* Specification of merge alone: any plan, any price list, either flag.    *)
(***************************************************************************)
NoArgs ==
    [enable_availability |-> FALSE, batch_size |-> 0, apply |-> FALSE,
     migrate_existing |-> FALSE, migrate_cutoff |-> FALSE,
     fix_currency |-> FALSE, convert_currency |-> FALSE]
NoMigration == [asked |-> FALSE, requests |-> <<>>, submitted |-> FALSE, warning |-> FALSE]

InitMerge ==
    /\ pc = "merge_call"
    /\ base_plan \in ExistingPlans
    /\ new_prices \in PriceLists
    /\ args \in { [NoArgs EXCEPT !.enable_availability = b] : b \in BOOLEAN }
    /\ merged_regional_configs = <<>>
    /\ start = 0
    /\ details_text = NoMessage
    /\ calls = <<>>
    /\ migration = NoMigration
    /\ before_configs = <<>>
    /\ log = <<>>
    /\ PreviewIdle /\ SecondMergeIdle /\ OracleIdle /\ FilterIdle /\ NormalizerIdle /\ ReaderIdle

MergeCall ==
    /\ pc = "merge_call"
    /\ merged_regional_configs' =
          merge_regional_configs(base_plan, new_prices, args.enable_availability)
    /\ base_plan' = ExistingAfterMerge(base_plan, new_prices, args.enable_availability)
    /\ pc' = "merge_ret"
    /\ UNCHANGED <<new_prices, args, start, details_text, calls, before_configs, log, migration>>
    /\ UNCHANGED <<readerVars, preview, mergeVars, oracleVars, filterVars, normalizerVars>>

NextMerge == MergeCall

SpecMerge == InitMerge /\ [][NextMerge]_vars

(***************************************************************************)
(* Specification of a second merge call after the first: with the same     *)
(* plan and list, with the merged set as the plan, or with the rows of the *)
(* list in another order.                                                  *)
(***************************************************************************)
\* The lists with the entries of a list in every order.
Permuted(prices) ==
    { [i \in DOMAIN prices |-> prices[p[i]]] :
        p \in { q \in [DOMAIN prices -> DOMAIN prices] :
                  \A i, j \in DOMAIN prices : q[i] = q[j] => i = j } }

\* Plans of at most two regions.
SmallPlans ==
    { p \in ExistingPlans :
        Len(p) <= 2 /\ \A i, j \in DOMAIN p : i < j => p[i]["regionCode"] < p[j]["regionCode"] }

InitMergeAgain ==
    /\ pc = "merge_call"
    /\ base_plan \in SmallPlans
    /\ new_prices \in PriceLists
    /\ args \in { [NoArgs EXCEPT !.enable_availability = b] : b \in BOOLEAN }
    /\ merged_regional_configs = <<>>
    /\ start = 0
    /\ details_text = NoMessage
    /\ calls = <<>>
    /\ migration = NoMigration
    /\ before_configs = <<>>
    /\ log = <<>>
    /\ second_merge = NoSecondMerge
    /\ merge_inputs = [base_plan |-> base_plan, prices |-> new_prices]
    /\ PreviewIdle /\ OracleIdle /\ FilterIdle /\ NormalizerIdle /\ ReaderIdle

SecondMerge(existing, prices) ==
    [called |-> TRUE, base_plan |-> existing, prices |-> prices,
     merged |-> merge_regional_configs(existing, prices, args.enable_availability)]

MergeAgainUnchanged ==
    /\ UNCHANGED <<base_plan, new_prices, args, merged_regional_configs, start,
                   details_text, calls, before_configs, log, migration>>
    /\ UNCHANGED <<readerVars, preview, merge_inputs, oracleVars, filterVars, normalizerVars>>

\* The same plan and the same list again.
MergeSameAgain ==
    /\ pc = "merge_ret"
    /\ second_merge' = SecondMerge(base_plan, new_prices)
    /\ pc' = "merge_same_ret"
    /\ MergeAgainUnchanged

\* The list again, into a plan whose regionalConfigs are the merged set.
MergeIntoMerged ==
    /\ pc = "merge_ret"
    /\ second_merge' = SecondMerge(merged_regional_configs, new_prices)
    /\ pc' = "merge_into_ret"
    /\ MergeAgainUnchanged

\* The same plan, the rows of the list in another order.
MergePermuted ==
    /\ pc = "merge_ret"
    /\ \E prices \in Permuted(new_prices) : second_merge' = SecondMerge(base_plan, prices)
    /\ pc' = "merge_permuted_ret"
    /\ MergeAgainUnchanged

NextMergeAgain == MergeCall \/ MergeSameAgain \/ MergeIntoMerged \/ MergePermuted

SpecMergeAgain == InitMergeAgain /\ [][NextMergeAgain]_vars

(***************************************************************************)
(* Specification of the two recovery functions alone: any merged set, any  *)
(* message.                                                                *)
(***************************************************************************)
IsAscending(configs) ==
    \A i, j \in DOMAIN configs : i < j => configs[i]["regionCode"] < configs[j]["regionCode"]

\* Merged sets: keys unique, sorted by region code.
MergedSets == { p \in ExistingPlans : IsAscending(p) }

InitRecovery ==
    /\ pc = "recover_call"
    /\ base_plan = <<>>
    /\ new_prices = <<>>
    /\ args = NoArgs
    /\ merged_regional_configs \in MergedSets
    /\ start = 0
    /\ details_text \in Messages
    /\ calls = <<>>
    /\ migration = NoMigration
    /\ before_configs = merged_regional_configs
    /\ log = <<>>
    /\ PreviewIdle /\ SecondMergeIdle /\ OracleIdle /\ FilterIdle /\ NormalizerIdle /\ ReaderIdle

ClampCall ==
    /\ pc = "recover_call"
    /\ LET r == clamp_config_from_error_message(details_text, merged_regional_configs)
       IN /\ merged_regional_configs' = r.configs
          /\ log' = Append(log, [action |-> "clamp", acted |-> r.adjusted])
    /\ pc' = "clamp_ret"
    /\ UNCHANGED <<base_plan, new_prices, args, start, details_text, calls, before_configs, migration>>
    /\ UNCHANGED <<readerVars, preview, mergeVars, oracleVars, filterVars, normalizerVars>>

RemoveCall ==
    /\ pc = "recover_call"
    /\ LET r == remove_region_from_configs(details_text, merged_regional_configs)
       IN /\ merged_regional_configs' = r.configs
          /\ log' = Append(log, [action |-> "remove", acted |-> r.removed # 0])
    /\ pc' = "remove_ret"
    /\ UNCHANGED <<base_plan, new_prices, args, start, details_text, calls, before_configs, migration>>
    /\ UNCHANGED <<readerVars, preview, mergeVars, oracleVars, filterVars, normalizerVars>>

NextRecovery == ClampCall \/ RemoveCall

SpecRecovery == InitRecovery /\ [][NextRecovery]_vars

(***************************************************************************)
(* Specification of the preview alone: any plan, any merged set, either    *)
(* flag.                                                                   *)
(***************************************************************************)
\* A config as the platform returns it when it leaves a field of value zero out
\* of the JSON body: the price of 10 EUR without its nanos.
ZeroOmittingConfigs(r) ==
    { [regionCode |-> r,
       price |-> [currencyCode |-> "EUR", units |-> 10],
       newSubscriberAvailability |-> "NEW_SUBSCRIBERS_CAN_PURCHASE"] }

FetchedConfigs(r) == ExistingConfigs(r) \cup ZeroOmittingConfigs(r)

\* The regionalConfigs of the fetched base plan: one config per region of any
\* subset of the regions, in ascending order.
FetchedSets ==
    UNION { { AscendingFrom(f, S)
                : f \in { g \in [S -> UNION {FetchedConfigs(r) : r \in S}] :
                            \A r \in S : g[r] \in FetchedConfigs(r) } }
            : S \in SUBSET Regions }

InitPreview ==
    /\ pc = "preview_call"
    /\ base_plan \in FetchedSets
    /\ new_prices = <<>>
    /\ args \in { [NoArgs EXCEPT !.enable_availability = b] : b \in BOOLEAN }
    /\ merged_regional_configs \in MergedSets
    /\ start = 0
    /\ details_text = NoMessage
    /\ calls = <<>>
    /\ migration = NoMigration
    /\ before_configs = <<>>
    /\ log = <<>>
    /\ PreviewIdle /\ SecondMergeIdle /\ OracleIdle /\ FilterIdle /\ NormalizerIdle /\ ReaderIdle

PreviewCall ==
    /\ pc = "preview_call"
    /\ preview' = print_price_changes_preview(base_plan, merged_regional_configs,
                                               args.enable_availability)
    /\ pc' = "preview_ret"
    /\ UNCHANGED <<base_plan, new_prices, args, merged_regional_configs, start,
                   details_text, calls, before_configs, log, migration>>
    /\ UNCHANGED <<readerVars, mergeVars, oracleVars, filterVars, normalizerVars>>

NextPreview == PreviewCall

SpecPreview == InitPreview /\ [][NextPreview]_vars

(***************************************************************************)
(* Specification of the three oracle functions alone: any response.        *)
(***************************************************************************)
InitOracle ==
    /\ pc = "oracle_call"
    /\ base_plan = <<>>
    /\ new_prices = <<>>
    /\ args = NoArgs
    /\ merged_regional_configs = <<>>
    /\ start = 0
    /\ details_text = NoMessage
    /\ calls = <<>>
    /\ migration = NoMigration
    /\ before_configs = <<>>
    /\ log = <<>>
    /\ response \in ConvertResponses
    /\ oracle_result = NoOracleCall
    /\ PreviewIdle /\ SecondMergeIdle /\ FilterIdle /\ NormalizerIdle /\ ReaderIdle

OracleUnchanged ==
    /\ UNCHANGED <<base_plan, new_prices, args, merged_regional_configs, start,
                   details_text, calls, before_configs, log, migration>>
    /\ UNCHANGED <<readerVars, preview, mergeVars, response, filterVars, normalizerVars>>

FetchRegionsVersionCall ==
    /\ pc = "oracle_call"
    /\ oracle_result' = [target_region |-> 0, ret |-> fetch_regions_version(response)]
    /\ pc' = "fetch_regions_version_ret"
    /\ OracleUnchanged

FetchBillableCall ==
    /\ pc = "oracle_call"
    /\ oracle_result' =
          [target_region |-> 0, ret |-> fetch_billable_regions_and_currencies(response)]
    /\ pc' = "fetch_billable_ret"
    /\ OracleUnchanged

ConvertAmountCall ==
    /\ pc = "oracle_call"
    /\ \E target_region \in Regions :
          oracle_result' =
              [target_region |-> target_region, ret |-> convert_amount(response, target_region)]
    /\ pc' = "convert_amount_ret"
    /\ OracleUnchanged

NextOracle == FetchRegionsVersionCall \/ FetchBillableCall \/ ConvertAmountCall

SpecOracle == InitOracle /\ [][NextOracle]_vars

(***************************************************************************)
(* Specification of convert_price_to_units_nanos alone: price texts with a *)
(* whole part, and a fraction of up to MaxFracDigits digits made of one    *)
(* repeated digit and an optional last digit.                              *)
(***************************************************************************)
RECURSIVE Repeat(_, _)
Repeat(c, n) == IF n = 0 THEN <<>> ELSE <<c>> \o Repeat(c, n - 1)

Fractions ==
    { Repeat(c, n) \o last :
        c \in {"0", "4", "5", "9"}, n \in 0..MaxFracDigits,
        last \in {<<>>, <<"1">>, <<"5">>, <<"6">>} }

WholeParts == { <<"0">>, <<"1", "2">> }

PriceTexts ==
    { sign \o whole \o (IF frac = <<>> THEN <<>> ELSE <<".">> \o frac) :
        sign \in {<<>>, <<"-">>}, whole \in WholeParts,
        frac \in { f \in Fractions : Len(f) <= MaxFracDigits } }

InitNormalizer ==
    /\ pc = "convert_call"
    /\ base_plan = <<>>
    /\ new_prices = <<>>
    /\ args = NoArgs
    /\ merged_regional_configs = <<>>
    /\ start = 0
    /\ details_text = NoMessage
    /\ calls = <<>>
    /\ migration = NoMigration
    /\ before_configs = <<>>
    /\ log = <<>>
    /\ price_str \in PriceTexts
    /\ units_nanos = NoReturn
    /\ PreviewIdle /\ SecondMergeIdle /\ OracleIdle /\ FilterIdle /\ ReaderIdle

ConvertPriceCall ==
    /\ pc = "convert_call"
    /\ units_nanos' = convert_price_to_units_nanos(price_str)
    /\ pc' = "convert_ret"
    /\ UNCHANGED <<base_plan, new_prices, args, merged_regional_configs, start,
                   details_text, calls, before_configs, log, migration>>
    /\ UNCHANGED <<readerVars, preview, mergeVars, oracleVars, filterVars, price_str>>

NextNormalizer == ConvertPriceCall

SpecNormalizer == InitNormalizer /\ [][NextNormalizer]_vars

(***************************************************************************)
(* read_csv_prices and build_regional_prices.  A row of the CSV file is a  *)
(* dict of three cells.  The cell of the region is empty, or holds the     *)
(* three-letter code of a region in one piece: Iso3(r) for region r, "XXX" *)
(* for a code that pycountry does not know.  The cells of the currency and *)
(* of the price are texts, character by character.                         *)
(***************************************************************************)
\* str.strip(): the text without its leading and trailing spaces.
RECURSIVE Strip(_)
Strip(s) ==
    IF s = <<>> THEN s
    ELSE IF s[1] = " " THEN Strip(Tail(s))
    ELSE IF s[Len(s)] = " " THEN Strip(SubSeq(s, 1, Len(s) - 1))
    ELSE s

\* str.upper(), character by character.
UpperChar(c) ==
    CASE c = "e" -> "E" [] c = "u" -> "U" [] c = "r" -> "R" [] c = "o" -> "O"
      [] OTHER -> c

Upper(s) == [i \in DOMAIN s |-> UpperChar(s[i])]

\* float(price_str) accepts the text: [-]digits[.digits] among the texts of
\* PriceCells.
FloatAccepts(text) ==
    LET body == IF text # <<>> /\ text[1] = "-" THEN Tail(text) ELSE text
    IN /\ body # <<>>
       /\ \A i \in DOMAIN body : body[i] \in Digits \cup {"."}
       /\ Cardinality({i \in DOMAIN body : body[i] = "."}) <= 1
       /\ \E i \in DOMAIN body : body[i] \in Digits

\* Lines 86-108 for one row: the row is appended.  A currency code whose
\* length is not 3 prints a warning and nothing else.
RowKept(row) ==
    /\ Strip(row["Countries or Regions"]) # <<>>
    /\ Strip(row["Price"]) # <<>>
    /\ FloatAccepts(Strip(row["Price"]))
    /\ ~IsNegative(DecimalOf(Strip(row["Price"])))

\* The subsequence of the rows that satisfy RowKept, from row i on.
RECURSIVE KeptFrom(_, _)
KeptFrom(rs, i) ==
    IF i > Len(rs) THEN <<>>
    ELSE (IF RowKept(rs[i]) THEN <<rs[i]>> ELSE <<>>) \o KeptFrom(rs, i + 1)

\* Lines 73-117: the rows, or the ValueError of line 111.
read_csv_prices(rs) ==
    LET kept == KeptFrom(rs, 1)
    IN IF kept = <<>> THEN Raised ELSE Returned(kept)

\* The three-letter code of region r.
Iso3(r) == ToString(r)

\* map_iso3_to_iso2 of a stripped region cell: the region, or None.
map_iso3_to_iso2(iso3) ==
    IF iso3 # <<>> /\ \E r \in Regions : Iso3(r) = iso3[1]
    THEN <<CHOOSE r \in Regions : Iso3(r) = iso3[1]>>
    ELSE <<>>

\* Lines 152-163 for one row: the row is skipped.
RowSkipped(row) ==
    \/ map_iso3_to_iso2(Strip(row["Countries or Regions"])) = <<>>
    \/ Upper(Strip(row["Currency Code"])) = <<>>
    \/ Strip(row["Price"]) = <<>>

\* Lines 158-163 for one row that is not skipped.
PriceOfRow(row) ==
    LET iso2 == map_iso3_to_iso2(Strip(row["Countries or Regions"]))[1]
        currency == Upper(Strip(row["Currency Code"]))
        un == convert_price_to_units_nanos(Strip(row["Price"])).value[1]
    IN RegionalPrice(iso2, currency, un.units, un.nanos)

\* Lines 150-164.
RECURSIVE BuildFrom(_, _)
BuildFrom(rs, i) ==
    IF i > Len(rs) THEN <<>>
    ELSE (IF RowSkipped(rs[i]) THEN <<>> ELSE <<PriceOfRow(rs[i])>>)
         \o BuildFrom(rs, i + 1)

build_regional_prices(rs) == BuildFrom(rs, 1)

(***************************************************************************)
(* Specification of the reader and the Normalizer: up to MaxPrices rows of *)
(* any cells, read by read_csv_prices and then built into RegionalPrices   *)
(* (main, lines 788-789).                                                  *)
(***************************************************************************)
RegionCells == { <<>>, <<"XXX">>, <<Iso3(1)>>, <<Iso3(NumRegions)>> }

CurrencyCells ==
    { <<>>, <<"E", "U">>, <<" ", "e", "u", "r">>, <<"E", "U", "R", "O">> }

PriceCells == { <<>>, <<"9", ".", "5">>, <<"-", "1">>, <<"a">> }

CsvRows ==
    { [k \in {"Countries or Regions", "Currency Code", "Price"} |->
         CASE k = "Countries or Regions" -> region
           [] k = "Currency Code" -> currency
           [] k = "Price" -> price] :
        region \in RegionCells, currency \in CurrencyCells, price \in PriceCells }

CsvFiles == UNION { [1..n -> CsvRows] : n \in 1..MaxPrices }

InitReader ==
    /\ pc = "read"
    /\ base_plan = <<>>
    /\ new_prices = <<>>
    /\ args = NoArgs
    /\ merged_regional_configs = <<>>
    /\ start = 0
    /\ details_text = NoMessage
    /\ calls = <<>>
    /\ migration = NoMigration
    /\ before_configs = <<>>
    /\ log = <<>>
    /\ csv_rows \in CsvFiles
    /\ rows = NoReturn
    /\ PreviewIdle /\ SecondMergeIdle /\ OracleIdle /\ FilterIdle /\ NormalizerIdle

ReaderUnchanged ==
    /\ UNCHANGED <<base_plan, new_prices, args, merged_regional_configs, start,
                   details_text, calls, before_configs, log, migration>>
    /\ UNCHANGED <<preview, mergeVars, oracleVars, region_currency_map, conversions,
                   normalized, normalizerVars, csv_rows>>

\* Line 788: rows = read_csv_prices(csv_path); its ValueError ends the run.
ReadCsv ==
    /\ pc = "read"
    /\ rows' = read_csv_prices(csv_rows)
    /\ pc' = IF rows'.raised THEN "read_raised" ELSE "build"
    /\ UNCHANGED regional_prices
    /\ ReaderUnchanged

\* Line 789: regional_prices = build_regional_prices(rows).
BuildPrices ==
    /\ pc = "build"
    /\ regional_prices' = build_regional_prices(rows.value[1])
    /\ pc' = "built"
    /\ UNCHANGED rows
    /\ ReaderUnchanged

NextReader == ReadCsv \/ BuildPrices

SpecReader == InitReader /\ [][NextReader]_vars

(***************************************************************************)
(* main() from the billable-region filter to the merge: lines 847-910,     *)
(* without --use-recommended.  The RegionalPrice objects of the filtered   *)
(* list are those of regional_prices: the Reconciler's assignments change  *)
(* both lists.                                                             *)
(***************************************************************************)
\* The maps that fetch_billable_regions_and_currencies returns (line 827).
BillableMaps ==
    { fetch_billable_regions_and_currencies(resp).value[1] :
        resp \in { r \in ConvertResponses :
                     ~fetch_billable_regions_and_currencies(r).raised } }

\* What convert_amount does at line 880: a return or an exception.
ConvertReturns == { convert_amount(resp, 1) : resp \in ConvertResponses }

\* The positions, from i on, of the prices that line 852 keeps, ascending.
RECURSIVE BillableIndexes(_, _, _)
BillableIndexes(prices, map, i) ==
    IF i > Len(prices) THEN <<>>
    ELSE (IF prices[i].region_iso2 \in DOMAIN map THEN <<i>> ELSE <<>>)
         \o BillableIndexes(prices, map, i + 1)

\* Mutant: the filter keeps every price.
BillableOnlyAll(prices, map) == prices

\* Line 852
BillableOnly(prices, map) == SelectSeq(prices, LAMBDA rp : rp.region_iso2 \in DOMAIN map)

\* Line 868: the region has a required currency and it is not the price's.
IsMismatched(map, rp) ==
    /\ rp.region_iso2 \in DOMAIN map
    /\ map[rp.region_iso2] # rp.currency_code

\* Mutant: the list is left as it is.
WithoutMismatchedNone(prices, map) == prices

\* Line 906: "rp not in mismatched_rps" compares the prices by their fields.
WithoutMismatched(prices, map) == SelectSeq(prices, LAMBDA rp : ~IsMismatched(map, rp))

\* "x.get(k) or 0" of a returned price object
GetOrZero(m, k) == IF Has(m, k) THEN m[k] ELSE 0

\* Whether "if converted:" takes the branch: a returned, non-empty object.
Converted(ret) == ~ret.raised /\ ret.value # <<>> /\ DOMAIN ret.value[1] # {}

\* Mutant: the fallback leaves the price as it is.
ResolvedNoFallback(rp, required, convert_currency, ret) ==
    IF convert_currency /\ Converted(ret)
    THEN LET m == ret.value[1]
         IN RegionalPrice(rp.region_iso2,
                          IF Has(m, "currencyCode") THEN m["currencyCode"] ELSE required,
                          GetOrZero(m, "units"), GetOrZero(m, "nanos"))
    ELSE IF convert_currency THEN rp
    ELSE [rp EXCEPT !.currency_code = required]

\* Lines 877-898 for one mismatched price; ret is what convert_amount returned.
Resolved(rp, required, convert_currency, ret) ==
    IF convert_currency /\ Converted(ret)
    THEN LET m == ret.value[1]
         IN RegionalPrice(rp.region_iso2,
                          IF Has(m, "currencyCode") THEN m["currencyCode"] ELSE required,
                          GetOrZero(m, "units"), GetOrZero(m, "nanos"))
    ELSE [rp EXCEPT !.currency_code = required]

InitFilter ==
    /\ pc = "filter"
    /\ base_plan = <<>>
    /\ new_prices = <<>>
    /\ args \in { [NoArgs EXCEPT !.fix_currency = f, !.convert_currency = c] :
                    f \in BOOLEAN, c \in BOOLEAN }
    /\ merged_regional_configs = <<>>
    /\ start = 0
    /\ details_text = NoMessage
    /\ calls = <<>>
    /\ migration = NoMigration
    /\ before_configs = <<>>
    /\ log = <<>>
    /\ regional_prices \in PriceLists
    /\ region_currency_map \in BillableMaps
    /\ conversions = <<>>
    /\ normalized = regional_prices
    /\ PreviewIdle /\ SecondMergeIdle /\ OracleIdle /\ NormalizerIdle /\ ReaderIdle

\* Lines 847-864, and line 908 when the map is empty.
Filter ==
    /\ pc = "filter"
    /\ IF DOMAIN region_currency_map = {}
       THEN /\ new_prices' = regional_prices
            /\ pc' = IF regional_prices = <<>> THEN "no_billable" ELSE "filtered"
       ELSE /\ new_prices' = BillableOnly(regional_prices, region_currency_map)
            /\ pc' = "reconcile"
    /\ UNCHANGED <<base_plan, args, merged_regional_configs, start, details_text,
                   calls, before_configs, log, migration>>
    /\ UNCHANGED <<readerVars, preview, mergeVars, oracleVars, filterVars, normalizerVars>>

\* Lines 865-910.  With --fix-currency and --convert-currency convert_amount
\* is called for each mismatched price in turn; an exception it raises ends
\* the run with the prices before it already changed.
Reconcile ==
    /\ pc = "reconcile"
    /\ LET map == region_currency_map
           mismatched == { i \in DOMAIN new_prices : IsMismatched(map, new_prices[i]) }
           origin == BillableIndexes(regional_prices, map, 1)
       IN IF mismatched = {}
          THEN /\ pc' = IF new_prices = <<>> THEN "no_billable" ELSE "filtered"
               /\ UNCHANGED <<new_prices, regional_prices, conversions>>
          ELSE IF ~args.fix_currency
          THEN /\ new_prices' = WithoutMismatched(new_prices, map)
               /\ pc' = IF new_prices' = <<>> THEN "no_billable" ELSE "filtered"
               /\ UNCHANGED <<regional_prices, conversions>>
          ELSE \E rets \in [mismatched -> IF args.convert_currency
                                           THEN ConvertReturns ELSE {NoReturn}] :
                 LET reached == { i \in mismatched :
                                    \A j \in mismatched : j < i => ~rets[j].raised }
                     done == { i \in reached : ~rets[i].raised }
                     fixed == [i \in DOMAIN new_prices |->
                                 IF i \in done
                                 THEN Resolved(new_prices[i], map[new_prices[i].region_iso2],
                                               args.convert_currency, rets[i])
                                 ELSE new_prices[i]]
                 IN /\ new_prices' = fixed
                    /\ regional_prices' =
                          [k \in DOMAIN regional_prices |->
                             IF \E i \in DOMAIN origin : origin[i] = k
                             THEN fixed[CHOOSE i \in DOMAIN origin : origin[i] = k]
                             ELSE regional_prices[k]]
                    /\ conversions' = IF args.convert_currency
                                       THEN [i \in reached |-> rets[i]] ELSE conversions
                    /\ pc' = IF done = mismatched THEN "filtered" ELSE "crashed"
    /\ UNCHANGED <<base_plan, args, merged_regional_configs, start, details_text,
                   calls, before_configs, log, migration>>
    /\ UNCHANGED <<readerVars, preview, mergeVars, oracleVars, region_currency_map, normalized,
                   normalizerVars>>

NextFilter == Filter \/ Reconcile

SpecFilter == InitFilter /\ [][NextFilter]_vars

(***************************************************************************)
(* main() from the merge on: lines 912-1056.                               *)
(*                                                                         *)
(* A call of patch_base_plan_regional_configs first GETs the subscription  *)
(* and then PATCHes it with the target base plan's regionalConfigs set to  *)
(* the list it was given.  The platform answers each call in one of four   *)
(* ways: "ok"; "get_error" (the GET raises HttpError, nothing is written); *)
(* "patch_error" (the PATCH request is sent and rejected with HttpError);  *)
(* "not_found" (the subscription holds no such base plan: RuntimeError).   *)
(***************************************************************************)
MainConfigs(r) ==
    { [regionCode |-> r,
       price |-> [currencyCode |-> "USD", units |-> 9, nanos |-> 990000000],
       newSubscriberAvailability |-> "NEW_SUBSCRIBERS_CANNOT_PURCHASE",
       taxAndComplianceSettings |-> "tax"] }

MainPlans ==
    { AscendingFrom([r \in S |-> CHOOSE c \in MainConfigs(r) : TRUE], S) : S \in SUBSET Regions }

\* main() leaves before the merge when the filtered list is empty (line 908).
\* The lists here hold one row per region, in the order of the region codes;
\* SpecMerge covers the other orders and the repeated regions.
MainPriceLists ==
    { AscendingFrom([r \in S |-> RegionalPrice(r, "EUR", 10, 0)], S) :
        S \in { T \in SUBSET Regions : Cardinality(T) \in 1..MaxPrices } }

\* migrate_cutoff: whether --migrate-cutoff was given (a non-empty string).
\* The two currency flags are not read after line 906.
MainArgs ==
    [enable_availability : {FALSE}, batch_size : (-1)..MaxBatch, apply : BOOLEAN,
     migrate_existing : BOOLEAN, migrate_cutoff : BOOLEAN,
     fix_currency : {FALSE}, convert_currency : {FALSE}]

NonNumeric == Amount(<<"n", "/", "a">>, -1, 0)

\* The rejections of a PATCH: a text with none of the parts; "must be between"
\* alone; "Region code R"; "Price for R"; the clamp form, with a numeric and
\* with a non-numeric found amount; the clamp form after "Region code R".
MainMessages ==
    { NoMessage, Message(0, 0, "plain", NoAmount, NoAmount, NoAmount) }
    \cup { Message(r, 0, "none", NoAmount, NoAmount, NoAmount) : r \in NamedRegions }
    \cup { Message(0, r, "none", NoAmount, NoAmount, NoAmount) : r \in NamedRegions }
    \cup { Message(0, r, "shape", PlainMin, PlainMax, PlainFound) : r \in NamedRegions }
    \cup { Message(0, r, "shape", PlainMin, PlainMax, NonNumeric) : r \in NamedRegions }
    \cup { Message(r, 1, "shape", PlainMin, PlainMax, PlainFound) : r \in NamedRegions }

GetMessages == { NoMessage, Message(1, 0, "none", NoAmount, NoAmount, NoAmount) }

Outcomes == {"ok", "not_found", "patch_error", "get_error"}

Responses ==
    { [outcome |-> "ok", msg |-> NoMessage], [outcome |-> "not_found", msg |-> NoMessage] }
    \cup { [outcome |-> "patch_error", msg |-> m] : m \in MainMessages }
    \cup { [outcome |-> "get_error", msg |-> m] : m \in GetMessages }

IsHttpError(outcome) == outcome \in {"get_error", "patch_error"}

\* The regionalConfigs the PATCH body holds for the target base plan.
PatchedRegionalConfigs(configs) == configs

Call(attempt, configs, outcome) ==
    [attempt |-> attempt, regionalConfigs |-> PatchedRegionalConfigs(configs),
     outcome |-> outcome]

Init ==
    /\ pc = "start"
    /\ base_plan \in MainPlans
    /\ new_prices \in MainPriceLists
    /\ args \in MainArgs
    /\ merged_regional_configs = <<>>
    /\ start = 0
    /\ details_text = NoMessage
    /\ calls = <<>>
    /\ before_configs = <<>>
    /\ log = <<>>
    /\ migration = NoMigration
    /\ PreviewIdle /\ SecondMergeIdle /\ OracleIdle /\ FilterIdle /\ NormalizerIdle /\ ReaderIdle

\* Mutant: the run goes on to the apply step without looking at --apply.
MergeThenApply ==
    /\ pc = "start"
    /\ merged_regional_configs' =
          merge_regional_configs(base_plan, new_prices, args.enable_availability)
    /\ base_plan' = ExistingAfterMerge(base_plan, new_prices, args.enable_availability)
    /\ pc' = "apply"
    /\ preview' =
          IF args.apply THEN preview
          ELSE print_price_changes_preview(base_plan', merged_regional_configs',
                                           args.enable_availability)
    /\ UNCHANGED <<new_prices, args, start, details_text, calls,
                   before_configs, log, migration>>
    /\ UNCHANGED <<readerVars, mergeVars, oracleVars, filterVars, normalizerVars>>

\* Lines 912-933: the merge, then the dry-run preview or the apply.
Merge ==
    /\ pc = "start"
    /\ merged_regional_configs' =
          merge_regional_configs(base_plan, new_prices, args.enable_availability)
    /\ base_plan' = ExistingAfterMerge(base_plan, new_prices, args.enable_availability)
    /\ pc' = IF args.apply THEN "apply" ELSE "dry_run_done"
    /\ preview' =
          IF args.apply THEN preview
          ELSE print_price_changes_preview(base_plan', merged_regional_configs',
                                           args.enable_availability)
    /\ UNCHANGED <<new_prices, args, start, details_text, calls,
                   before_configs, log, migration>>
    /\ UNCHANGED <<readerVars, mergeVars, oracleVars, filterVars, normalizerVars>>

\* Mutant: the chunk ends one entry early.
ChunkEndShort(from, batch_size, total) ==
    IF from + batch_size < total THEN from + batch_size - 1 ELSE total

\* end = min(start + args.batch_size, total)
ChunkEnd(from, batch_size, total) ==
    IF from + batch_size < total THEN from + batch_size ELSE total

\* merged_regional_configs[start:end]
ChunkOf(configs, from, to) == SubSeq(configs, from + 1, to)

\* Lines 947-956: one round of the batching loop.
ApplyChunk ==
    /\ pc = "apply"
    /\ args.batch_size > 0
    /\ start < Len(merged_regional_configs)
    /\ \E resp \in Responses :
          LET total == Len(merged_regional_configs)
              end == ChunkEnd(start, args.batch_size, total)
              chunk == ChunkOf(merged_regional_configs, start, end)
          IN /\ calls' = Append(calls, Call(1, chunk, resp.outcome))
             /\ start' = IF resp.outcome = "ok" THEN end ELSE start
             /\ details_text' = IF IsHttpError(resp.outcome) THEN resp.msg ELSE details_text
             /\ pc' = IF resp.outcome = "ok"
                      THEN (IF end < total THEN "apply" ELSE "applied")
                      ELSE IF IsHttpError(resp.outcome) THEN "except" ELSE "crashed"
    /\ UNCHANGED <<base_plan, new_prices, args, merged_regional_configs,
                   before_configs, log, migration>>
    /\ UNCHANGED <<readerVars, preview, mergeVars, oracleVars, filterVars, normalizerVars>>

\* Line 959: the whole merged set in one call.
ApplyWhole ==
    /\ pc = "apply"
    /\ ~(args.batch_size > 0)
    /\ \E resp \in Responses :
          /\ calls' = Append(calls, Call(1, merged_regional_configs, resp.outcome))
          /\ details_text' = IF IsHttpError(resp.outcome) THEN resp.msg ELSE details_text
          /\ pc' = IF resp.outcome = "ok" THEN "applied"
                   ELSE IF IsHttpError(resp.outcome) THEN "except" ELSE "crashed"
    /\ UNCHANGED <<base_plan, new_prices, args, merged_regional_configs, start,
                   before_configs, log, migration>>
    /\ UNCHANGED <<readerVars, preview, mergeVars, oracleVars, filterVars, normalizerVars>>

\* Lines 976-994: the requests array, one request per config of the merged set
\* (a request is modelled by its regionCode).
MigrationRequests(configs) == [i \in DOMAIN configs |-> configs[i]["regionCode"]]

\* Mutant: a failure of the migration step is raised to the handler of the
\* apply step instead of being caught at line 1003.
MigratePropagating ==
    /\ pc = "applied"
    /\ \E accepted \in BOOLEAN :
          LET requests == MigrationRequests(merged_regional_configs)
              failed == args.migrate_existing /\ (~args.migrate_cutoff \/ ~accepted)
          IN /\ migration' =
                  IF ~args.migrate_existing THEN NoMigration
                  ELSE IF ~args.migrate_cutoff
                       THEN [asked |-> TRUE, requests |-> <<>>, submitted |-> FALSE, warning |-> TRUE]
                  ELSE [asked |-> TRUE, requests |-> requests, submitted |-> TRUE,
                        warning |-> ~accepted]
             /\ pc' = IF failed THEN "except" ELSE "done"
    /\ UNCHANGED <<base_plan, new_prices, args, merged_regional_configs, start,
                   details_text, calls, before_configs, log>>
    /\ UNCHANGED <<readerVars, preview, mergeVars, oracleVars, filterVars, normalizerVars>>

\* Lines 968-1004: the migration of existing cohorts after a successful apply.
\* Every exception of the step (the missing cutoff, a rejection by the platform)
\* is caught at line 1003 and printed as a warning.
Migrate ==
    /\ pc = "applied"
    /\ \E accepted \in BOOLEAN :
          LET requests == MigrationRequests(merged_regional_configs)
          IN migration' =
               IF ~args.migrate_existing THEN NoMigration
               ELSE IF ~args.migrate_cutoff
                    THEN [asked |-> TRUE, requests |-> <<>>, submitted |-> FALSE, warning |-> TRUE]
               ELSE IF requests = <<>>
                    THEN [asked |-> TRUE, requests |-> <<>>, submitted |-> FALSE, warning |-> FALSE]
               ELSE [asked |-> TRUE, requests |-> requests, submitted |-> TRUE,
                     warning |-> ~accepted]
    /\ pc' = "done"
    /\ UNCHANGED <<base_plan, new_prices, args, merged_regional_configs, start,
                   details_text, calls, before_configs, log>>
    /\ UNCHANGED <<readerVars, preview, mergeVars, oracleVars, filterVars, normalizerVars>>

\* Mutant: the handler retries also when neither recovery acted.
ExceptHandlerBlindRetry ==
    /\ pc = "except"
    /\ LET tried == ContainsMustBeBetween(details_text)
           clamp == IF tried
                    THEN clamp_config_from_error_message(details_text, merged_regional_configs)
                    ELSE [adjusted |-> FALSE, configs |-> merged_regional_configs]
           rem == remove_region_from_configs(details_text, merged_regional_configs)
           clampLog == IF tried THEN <<[action |-> "clamp", acted |-> clamp.adjusted]>> ELSE <<>>
       IN IF clamp.adjusted
          THEN /\ merged_regional_configs' = clamp.configs
               /\ log' = log \o clampLog
          ELSE /\ merged_regional_configs' = rem.configs
               /\ log' = log \o clampLog \o <<[action |-> "remove", acted |-> rem.removed # 0]>>
    /\ pc' = "retry"
    /\ before_configs' = merged_regional_configs
    /\ UNCHANGED <<base_plan, new_prices, args, start, details_text, calls, migration>>
    /\ UNCHANGED <<readerVars, preview, mergeVars, oracleVars, filterVars, normalizerVars>>

\* Lines 1005-1017, 1034-1037 and 1054-1056: the handler of HttpError up to the
\* retry call or the exit.
ExceptHandler ==
    /\ pc = "except"
    /\ LET tried == ContainsMustBeBetween(details_text)
           clamp == IF tried
                    THEN clamp_config_from_error_message(details_text, merged_regional_configs)
                    ELSE [adjusted |-> FALSE, configs |-> merged_regional_configs]
           rem == remove_region_from_configs(details_text, merged_regional_configs)
           clampLog == IF tried THEN <<[action |-> "clamp", acted |-> clamp.adjusted]>> ELSE <<>>
       IN IF clamp.adjusted
          THEN /\ merged_regional_configs' = clamp.configs
               /\ log' = log \o clampLog
               /\ pc' = "retry"
          ELSE /\ merged_regional_configs' = rem.configs
               /\ log' = log \o clampLog \o <<[action |-> "remove", acted |-> rem.removed # 0]>>
               /\ pc' = IF rem.removed # 0 THEN "retry" ELSE "fatal"
    /\ before_configs' = merged_regional_configs
    /\ UNCHANGED <<base_plan, new_prices, args, start, details_text, calls, migration>>
    /\ UNCHANGED <<readerVars, preview, mergeVars, oracleVars, filterVars, normalizerVars>>

\* Mutant: a rejected retry is handled like the first rejection.
RetryAgain ==
    /\ pc = "retry"
    /\ \E resp \in Responses :
          /\ calls' = Append(calls, Call(2, merged_regional_configs, resp.outcome))
          /\ details_text' = IF IsHttpError(resp.outcome) THEN resp.msg ELSE details_text
          /\ pc' = IF resp.outcome = "ok" THEN "done"
                   ELSE IF IsHttpError(resp.outcome) THEN "except" ELSE "crashed"
    /\ UNCHANGED <<base_plan, new_prices, args, merged_regional_configs, start,
                   before_configs, log, migration>>
    /\ UNCHANGED <<readerVars, preview, mergeVars, oracleVars, filterVars, normalizerVars>>

\* Mutant: the retry resumes at the chunk that failed.
RetryResuming ==
    /\ pc = "retry"
    /\ \E outcome \in Outcomes :
          /\ calls' = Append(calls,
                Call(2, ChunkOf(merged_regional_configs, start, Len(merged_regional_configs)),
                     outcome))
          /\ pc' = IF outcome = "ok" THEN "done" ELSE "crashed"
    /\ UNCHANGED <<base_plan, new_prices, args, merged_regional_configs, start,
                   details_text, before_configs, log, migration>>
    /\ UNCHANGED <<readerVars, preview, mergeVars, oracleVars, filterVars, normalizerVars>>

\* Lines 1018-1033 and 1038-1053: the retry, the whole merged set in one call.
\* An error raised here is raised inside the handler: nothing catches it, whatever
\* its message.
Retry ==
    /\ pc = "retry"
    /\ \E outcome \in Outcomes :
          /\ calls' = Append(calls, Call(2, merged_regional_configs, outcome))
          /\ pc' = IF outcome = "ok" THEN "done" ELSE "crashed"
    /\ UNCHANGED <<base_plan, new_prices, args, merged_regional_configs, start,
                   details_text, before_configs, log, migration>>
    /\ UNCHANGED <<readerVars, preview, mergeVars, oracleVars, filterVars, normalizerVars>>

Next == Merge \/ ApplyChunk \/ ApplyWhole \/ Migrate \/ ExceptHandler \/ Retry

Spec == Init /\ [][Next]_vars

\* The exit status of the process: 0 after a return of main(), 2 after
\* sys.exit(2), 1 after an exception that nothing catches.
ExitCode ==
    IF pc \in {"done", "dry_run_done"} THEN 0
    ELSE IF pc = "fatal" THEN 2
    ELSE IF pc = "crashed" THEN 1
    ELSE -1

(***************************************************************************)
(* Properties of merge (SpecMerge).                                        *)
(***************************************************************************)
PriceRegions(prices) == {prices[i].region_iso2 : i \in DOMAIN prices}

HasRegion(configs, r) == \E i \in DOMAIN configs : configs[i]["regionCode"] = r

IndexOfRegion(configs, r) == CHOOSE i \in DOMAIN configs : configs[i]["regionCode"] = r

\* C6: the region codes of the merged set are exactly the union of the existing
\* plan's and the price list's region codes, each once, in strictly ascending
\* order (also for a price list with several entries for one region).
C6_MergeRegionsUnionAscending ==
    pc = "merge_ret" =>
        /\ RegionCodes(merged_regional_configs) =
              RegionCodes(base_plan) \cup PriceRegions(new_prices)
        /\ \A i, j \in DOMAIN merged_regional_configs :
              i < j => merged_regional_configs[i]["regionCode"]
                         < merged_regional_configs[j]["regionCode"]

\* Merged: an existing plan in descending order, a price list with two entries
\* for one region that the plan does not hold.
C6_Witness ==
    /\ pc = "merge_ret"
    /\ Len(base_plan) = 2
    /\ base_plan[1]["regionCode"] > base_plan[2]["regionCode"]
    /\ Len(new_prices) = 2
    /\ new_prices[1].region_iso2 = new_prices[2].region_iso2
    /\ new_prices[1].region_iso2 \notin RegionCodes(base_plan)
    /\ Len(merged_regional_configs) = 3

ManagedKeys(enable_availability) ==
    {"regionCode", "price"} \cup
    (IF enable_availability THEN {"newSubscriberAvailability"} ELSE {})

\* C7: for a region of the price list every field of the existing config other
\* than regionCode, price and (only when availability-enabling is requested)
\* newSubscriberAvailability keeps its value in the merged config; a region of
\* the existing plan that the price list does not name has a merged config
\* identical to the existing one.
C7_MergeKeepsUnmanagedData ==
    pc = "merge_ret" =>
        \A i \in DOMAIN base_plan :
            LET old == base_plan[i]
            IN \E j \in DOMAIN merged_regional_configs :
                 LET new == merged_regional_configs[j]
                 IN /\ new["regionCode"] = old["regionCode"]
                    /\ IF old["regionCode"] \in PriceRegions(new_prices)
                       THEN \A k \in (DOMAIN old) \ ManagedKeys(args.enable_availability) :
                               k \in DOMAIN new /\ new[k] = old[k]
                       ELSE new = old

\* Merged with availability-enabling: one existing region with an unmanaged
\* field is repriced, another that cannot be purchased is not in the price list.
C7_Witness ==
    /\ pc = "merge_ret"
    /\ args.enable_availability
    /\ \E i, j \in DOMAIN base_plan :
          /\ base_plan[i]["regionCode"] \in PriceRegions(new_prices)
          /\ Has(base_plan[i], "taxAndComplianceSettings")
          /\ base_plan[i]["newSubscriberAvailability"] = "NEW_SUBSCRIBERS_CANNOT_PURCHASE"
          /\ base_plan[j]["regionCode"] \notin PriceRegions(new_prices)
          /\ Has(base_plan[j], "newSubscriberAvailability")
          /\ base_plan[j]["newSubscriberAvailability"] = "NEW_SUBSCRIBERS_CANNOT_PURCHASE"

(***************************************************************************)
(* Properties of the recovery functions (SpecRecovery).                    *)
(***************************************************************************)
Separators == {",", " ", NBSP, NNBSP}

\* The text holds a separator between two digit groups.
HasGroupSeparator(text) ==
    \E i \in 2..(Len(text) - 1) :
        text[i] \in Separators /\ text[i - 1] \in Digits /\ text[i + 1] \in Digits

\* The clamp expression matched and the region it names has a priced config.
ClampCase ==
    /\ pc = "clamp_ret"
    /\ details_text.between = "shape"
    /\ \E i \in DOMAIN before_configs :
          /\ before_configs[i]["regionCode"] = details_text.price_for
          /\ Has(before_configs[i], "price")

FoundBelowMin == details_text.found.units >= 0 /\ AmountLess(details_text.found, details_text.min)
FoundAboveMax == details_text.found.units >= 0 /\ AmountLess(details_text.max, details_text.found)

PriceIs(cfg, amount) ==
    cfg["price"]["units"] = amount.units /\ cfg["price"]["nanos"] = amount.nanos

OthersUnchanged(i) ==
    /\ Len(merged_regional_configs) = Len(before_configs)
    /\ \A j \in DOMAIN before_configs :
          j # i => merged_regional_configs[j] = before_configs[j]

\* C2: for "Price for R must be between MIN and MAX, found F" with R in the
\* merged set, R's price becomes exactly MIN when F is below MIN and exactly MAX
\* when F is above MAX, and every other region's config is unchanged.
C2_ClampSetsViolatedBound ==
    ClampCase =>
        LET i == IndexOfRegion(before_configs, details_text.price_for)
        IN /\ OthersUnchanged(i)
           /\ FoundBelowMin => PriceIs(merged_regional_configs[i], details_text.min)
           /\ FoundAboveMax => PriceIs(merged_regional_configs[i], details_text.max)

\* C3: a bound written with a thousands separator or a (regular, no-break or
\* narrow) space between digit groups is read as the whole number, and a
\* violating price is clamped to that whole number.
C3_GroupedBoundReadWhole ==
    (ClampCase /\ HasGroupSeparator(details_text.max.text) /\ FoundAboveMax) =>
        PriceIs(merged_regional_configs[IndexOfRegion(before_configs, details_text.price_for)],
                details_text.max)

\* The same as C2 for the messages whose amounts are written without a
\* separator between digit groups: there the code does clamp to the bound.
ClampExactOnUngroupedAmounts ==
    (/\ ClampCase
     /\ ~HasGroupSeparator(details_text.min.text)
     /\ ~HasGroupSeparator(details_text.max.text)
     /\ ~HasGroupSeparator(details_text.found.text)) =>
        LET i == IndexOfRegion(before_configs, details_text.price_for)
        IN /\ OthersUnchanged(i)
           /\ FoundBelowMin => PriceIs(merged_regional_configs[i], details_text.min)
           /\ FoundAboveMax => PriceIs(merged_regional_configs[i], details_text.max)

\* C4: for a rejection naming "Region code R" with R in the merged set, exactly
\* R's entry is removed: the set is one shorter, and the other entries keep
\* their content and their relative order.
C4_RemoveExactlyNamedRegion ==
    (/\ pc = "remove_ret"
     /\ details_text.region_code # 0
     /\ HasRegion(before_configs, details_text.region_code)) =>
        LET k == IndexOfRegion(before_configs, details_text.region_code)
        IN /\ Len(merged_regional_configs) = Len(before_configs) - 1
           /\ \A i \in DOMAIN merged_regional_configs :
                 merged_regional_configs[i] =
                    IF i < k THEN before_configs[i] ELSE before_configs[i + 1]

\* Removed: the middle entry of a set of three, named by "Region code R" in a
\* message that also holds a "Price for" of another region.
C4_Witness ==
    /\ pc = "remove_ret"
    /\ Len(before_configs) = 3
    /\ details_text.region_code = before_configs[2]["regionCode"]
    /\ details_text.price_for = before_configs[1]["regionCode"]
    /\ Len(merged_regional_configs) = 2

(***************************************************************************)
(* Properties of the apply step (Spec).                                    *)
(***************************************************************************)
FirstAttempt == SelectSeq(calls, LAMBDA c : c.attempt = 1)

RetryCalls == SelectSeq(calls, LAMBDA c : c.attempt = 2)

\* The calls whose PATCH request went out.
Sent(cs) == SelectSeq(cs, LAMBDA c : c.outcome \in {"ok", "patch_error"})

ActedRecoveries == SelectSeq(log, LAMBDA e : e.acted)

HandlerRan == log # <<>>

\* C1: in apply mode the merged set is applied at most twice: one first attempt
\* (one call, or the chunk calls) and at most one retry, which follows a
\* rejection and exactly one recovery action; after a rejected retry there is
\* no further recovery and no further call: the run has ended, not successfully.
C1_AtMostOneRetry ==
    /\ Len(RetryCalls) <= 1
    /\ Len(ActedRecoveries) <= 1
    /\ \A i \in DOMAIN calls :
          /\ calls[i].attempt \in {1, 2}
          /\ (calls[i].attempt = 1 /\ calls[i].outcome # "ok") =>
                \A j \in DOMAIN calls : j > i => calls[j].attempt = 2
          /\ calls[i].attempt = 2 =>
                /\ i = Len(calls)
                /\ i > 1
                /\ calls[i - 1].attempt = 1
                /\ IsHttpError(calls[i - 1].outcome)
                /\ Len(ActedRecoveries) = 1
                /\ calls[i].outcome # "ok" =>
                      pc = "crashed" /\ ExitCode # 0 /\ ~ENABLED Next

\* A chunked first attempt, a recovery, and a retry that the platform rejected.
C1_Witness ==
    /\ pc = "crashed"
    /\ Len(FirstAttempt) >= 2
    /\ Len(RetryCalls) = 1
    /\ RetryCalls[1].outcome = "patch_error"

ClampIdentifies(msg, configs) ==
    /\ ClampMatches(msg)
    /\ ParseAmount(msg.min.text).matched
    /\ ParseAmount(msg.max.text).matched
    /\ ParseAmount(msg.found.text).matched
    /\ ClampIndex(msg.price_for, configs) # 0

RemoveIdentifies(msg, configs) == HasRegion(configs, RemoveRegionOf(msg))

\* C5: when the first attempt is rejected and neither clamp nor remove
\* identifies a region of the merged set to act on, no retry call is made, the
\* merged set is left as it was, and the run ends with a non-zero exit code.
C5_UnrecognisedRejectionIsFatal ==
    (/\ HandlerRan
     /\ ~ClampIdentifies(details_text, before_configs)
     /\ ~RemoveIdentifies(details_text, before_configs)) =>
        /\ pc = "fatal"
        /\ RetryCalls = <<>>
        /\ merged_regional_configs = before_configs
        /\ ExitCode # 0
        /\ ~ENABLED Next

\* The second chunk was rejected naming a region that the merged set does not
\* hold, and the run has ended.
C5_Witness ==
    /\ pc = "fatal"
    /\ Len(calls) = 2
    /\ calls[2].outcome = "patch_error"
    /\ details_text.region_code = NumRegions + 1
    /\ Len(merged_regional_configs) >= 2

\* C8: with a positive batch size, the regionalConfigs of every patch request
\* of the first attempt hold every region code of the fetched base plan.
C8_BatchedRequestsKeepExistingRegions ==
    \A i \in DOMAIN calls :
        (/\ args.batch_size > 0
         /\ calls[i].attempt = 1
         /\ calls[i].outcome \in {"ok", "patch_error"}) =>
            RegionCodes(base_plan) \subseteq RegionCodes(calls[i].regionalConfigs)

RECURSIVE Concat(_)
Concat(seqs) == IF seqs = <<>> THEN <<>> ELSE Head(seqs) \o Concat(Tail(seqs))

FirstAttemptChunks ==
    [i \in DOMAIN Sent(FirstAttempt) |-> Sent(FirstAttempt)[i].regionalConfigs]

FirstAttemptComplete == pc = "applied" \/ (pc = "done" /\ RetryCalls = <<>>)

\* C9: for every batch size the chunks sent in the first attempt are
\* consecutive slices of the merged set in ascending region order, each of at
\* most batch-size entries when the size is positive (one slice, the whole set,
\* when it is not), and once the attempt is through their concatenation is the
\* merged set.
C9_BatchingPreservesTotality ==
    (pc # "start" /\ ActedRecoveries = <<>>) =>
        LET chunks == FirstAttemptChunks
            all == Concat(chunks)
        IN /\ Len(all) <= Len(merged_regional_configs)
           /\ all = SubSeq(merged_regional_configs, 1, Len(all))
           /\ IsAscending(all)
           /\ args.batch_size > 0 =>
                 \A i \in DOMAIN chunks :
                    /\ Len(chunks[i]) >= 1
                    /\ Len(chunks[i]) <= args.batch_size
                    /\ i < Len(chunks) => Len(chunks[i]) = args.batch_size
           /\ ~(args.batch_size > 0) =>
                 /\ Len(chunks) <= 1
                 /\ Len(chunks) = 1 => chunks[1] = merged_regional_configs
           /\ FirstAttemptComplete => all = merged_regional_configs

\* A merged set of three was sent in chunks of two and one.
C9_Witness ==
    /\ pc = "applied"
    /\ args.batch_size = 2
    /\ Len(merged_regional_configs) = 3
    /\ Len(FirstAttemptChunks) = 2

\* C10: after a rejected chunk no later chunk of the attempt is sent; the
\* recovery acts on the full merged set; the retry sends the whole recovered
\* set, from its first region.
C10_RetryResendsWholeSet ==
    /\ \A i, j \in DOMAIN calls :
          (i < j /\ calls[i].attempt = 1 /\ calls[i].outcome # "ok") => calls[j].attempt # 1
    /\ HandlerRan =>
          /\ before_configs =
                merge_regional_configs(base_plan, new_prices, args.enable_availability)
          /\ merged_regional_configs \in
                { clamp_config_from_error_message(details_text, before_configs).configs,
                  remove_region_from_configs(details_text, before_configs).configs }
    /\ \A i \in DOMAIN calls :
          calls[i].attempt = 2 => calls[i].regionalConfigs = merged_regional_configs

\* Chunks of one: the first went through, the second was rejected, and the
\* retry was sent with the region of the first chunk in it.
C10_Witness ==
    /\ args.batch_size = 1
    /\ Len(calls) = 3
    /\ calls[1].outcome = "ok"
    /\ calls[2].outcome = "patch_error"
    /\ calls[3].attempt = 2
    /\ Len(calls[3].regionalConfigs) >= 2
    /\ calls[3].regionalConfigs[1] = calls[1].regionalConfigs[1]

(***************************************************************************)
(* Properties of the migration step (Spec).                                *)
(***************************************************************************)
\* The run has ended in the Applied state: main() returned after a successful
\* apply, on the first attempt or on the retry.
EndedApplied == pc = "done" /\ calls # <<>> /\ calls[Len(calls)].outcome = "ok"

\* C11: every apply-mode run with --migrate-existing and --migrate-cutoff that
\* ends in the Applied state has submitted the migration requests, whether the
\* apply succeeded on the first attempt or on the retry after a recovery.
C11_MigrationAfterEveryAppliedRun ==
    (args.apply /\ args.migrate_existing /\ args.migrate_cutoff /\ EndedApplied) =>
        migration.submitted

AllCallsOk == \A i \in DOMAIN calls : calls[i].attempt = 1 /\ calls[i].outcome = "ok"

\* C12: the migration requests are submitted only when every apply call of the
\* attempt has succeeded and the whole merged set has been sent; a failure of
\* the step (the platform rejects the batch, or the cutoff is missing) is a
\* warning only: no recovery function is called, no patch request follows, the
\* merged set stays as it was applied, and the run ends with exit code 0.
C12_MigrationFailureIsWarningOnly ==
    /\ migration.submitted =>
          /\ AllCallsOk
          /\ Concat(FirstAttemptChunks) = merged_regional_configs
    /\ migration.warning =>
          /\ migration.asked
          /\ AllCallsOk
          /\ Concat(FirstAttemptChunks) = merged_regional_configs
          /\ log = <<>>
          /\ merged_regional_configs =
                merge_regional_configs(base_plan, new_prices, args.enable_availability)
          /\ pc = "done"
          /\ ExitCode = 0
          /\ ~ENABLED Next
    /\ (pc = "done" /\ RetryCalls = <<>> /\ args.migrate_existing /\ ~args.migrate_cutoff) =>
          migration.warning /\ ~migration.submitted

\* The merged set went out in two chunks, the migration batch was submitted
\* and the platform rejected it.
C12_Witness ==
    /\ pc = "done"
    /\ Len(calls) = 2
    /\ migration.submitted
    /\ migration.warning
    /\ Len(migration.requests) >= 2

(***************************************************************************)
(* Properties of the preview (SpecPreview).                                *)
(***************************************************************************)
PreviewLists ==
    <<preview.new_regions, preview.price_changes, preview.availability_changes,
      preview.no_changes>>

InList(list, r) == \E i \in DOMAIN list : list[i] = r

\* C13: every merged config is in exactly one of the four lists, the four
\* counts add up to the number of merged configs, and a config is in the list
\* of new regions exactly when the existing plan holds no config of its region.
C13_DiffClassesPartition ==
    preview.printed =>
        /\ Len(preview.new_regions) + Len(preview.price_changes)
             + Len(preview.availability_changes) + Len(preview.no_changes)
             = Len(merged_regional_configs)
        /\ \A i \in DOMAIN merged_regional_configs :
              LET r == merged_regional_configs[i]["regionCode"]
              IN /\ Cardinality({ k \in 1..4 : InList(PreviewLists[k], r) }) = 1
                 /\ InList(preview.new_regions, r) <=> ~HasRegion(base_plan, r)

\* With the availability flag: one new region, one region with another price
\* and one region with only another availability.
C13_Witness ==
    /\ pc = "preview_ret"
    /\ args.enable_availability
    /\ Len(preview.new_regions) = 1
    /\ Len(preview.price_changes) = 1
    /\ Len(preview.availability_changes) = 1

(***************************************************************************)
(* Properties of the oracle functions (SpecOracle).                        *)
(***************************************************************************)
ConvertedOf(resp) == JsonGet(resp, "convertedRegionPrices")

\* The part of the response that the function reads is not of the form the
\* platform documents: the body is not an object, convertedRegionPrices is
\* not an object, a region's entry or its price is not an object.
MalformedForBillable(resp) ==
    \/ resp = Other
    \/ /\ IsDict(resp)
       /\ \/ ConvertedOf(resp) = Other
          \/ /\ IsDict(ConvertedOf(resp))
             /\ \E r \in DOMAIN ConvertedOf(resp).val :
                   LET data == ConvertedOf(resp).val[r]
                   IN data \in {Null, Other} \/ JsonGet(data, "price") = Other

MalformedForConvert(resp, target_region) ==
    \/ resp = Other
    \/ /\ IsDict(resp)
       /\ \/ ConvertedOf(resp) = Other
          \/ /\ IsDict(ConvertedOf(resp))
             /\ JsonGet(ConvertedOf(resp), target_region) = Other

MalformedForCall ==
    IF pc = "fetch_billable_ret" THEN MalformedForBillable(response)
    ELSE IF pc = "convert_amount_ret"
         THEN MalformedForConvert(response, oracle_result.target_region)
    ELSE response = Other

EmptyOrAbsent(ret) == ret.value = <<>> \/ DOMAIN ret.value[1] = {}

\* C14: when the platform call raises HttpError, or the part of the response
\* that the function reads is malformed, each of the three oracle functions
\* returns an empty or absent result and raises nothing.
C14_OracleFailuresReturnEmpty ==
    (oracle_result.ret.called /\ (response = HttpError \/ MalformedForCall)) =>
        /\ ~oracle_result.ret.raised
        /\ EmptyOrAbsent(oracle_result.ret)

\* The same for the failed platform call alone.
OracleHttpErrorReturnsEmpty ==
    (oracle_result.ret.called /\ response = HttpError) =>
        /\ ~oracle_result.ret.raised
        /\ EmptyOrAbsent(oracle_result.ret)

(***************************************************************************)
(* Properties of the filter and the Reconciler (SpecFilter).               *)
(***************************************************************************)
MapIsEmpty == DOMAIN region_currency_map = {}

InMap(rp) == rp.region_iso2 \in DOMAIN region_currency_map

Required(rp) == region_currency_map[rp.region_iso2]

\* The normalized prices of billable regions, in their order.
NormalizedBillable == SelectSeq(normalized, InMap)

\* convert_amount returned a Money with its three fields.
ConvertSucceeded(ret) ==
    /\ ~ret.raised
    /\ ret.value # <<>>
    /\ DOMAIN ret.value[1] = {"currencyCode", "units", "nanos"}

\* convert_amount returned None.
ConvertFailed(ret) == ~ret.raised /\ ret.value = <<>>

C16_MismatchedExcludedWithoutFix ==
    (~MapIsEmpty /\ ~args.fix_currency /\ pc \in {"filtered", "no_billable"}) =>
        /\ new_prices =
              SelectSeq(normalized, LAMBDA rp : InMap(rp) /\ rp.currency_code = Required(rp))
        /\ \A i \in DOMAIN new_prices : ~IsMismatched(region_currency_map, new_prices[i])

\* Two prices of billable regions, one of them in another currency than
\* required: only the other one is left.
C16_Witness ==
    /\ pc = "filtered"
    /\ ~args.fix_currency
    /\ Len(normalized) = 2
    /\ \A i \in DOMAIN normalized : InMap(normalized[i])
    /\ Len(new_prices) = 1

\* C17: with a non-empty map, the filter keeps exactly the normalized prices
\* whose region is in the map, and every price that is later handed to the
\* merge is of a region in the map; with an empty map every normalized price
\* passes unchanged, the Reconciler does not run and convert_amount is not
\* called.
C17_FilterKeepsBillableRegions ==
    pc # "filter" =>
        IF MapIsEmpty
        THEN /\ new_prices = normalized
             /\ regional_prices = normalized
             /\ conversions = <<>>
             /\ pc \in {"filtered", "no_billable"}
        ELSE /\ \A i \in DOMAIN new_prices : InMap(new_prices[i])
             /\ pc = "reconcile" => new_prices = NormalizedBillable

\* A price of a region that the map does not hold was dropped, another was
\* kept.
C17_Witness ==
    /\ pc = "reconcile"
    /\ Len(normalized) = 2
    /\ Len(new_prices) = 1

(***************************************************************************)
(* Properties of repeated merges (SpecMergeAgain).                         *)
(***************************************************************************)
\* C18: a second merge of the same list into the same plan, and a merge of
\* the list into a plan that holds the merged set, both return the merged set
\* of the first call; the first call leaves the plan and the list as they
\* were given to it.
C18_MergeIdempotent ==
    /\ pc \in {"merge_same_ret", "merge_into_ret"} =>
          second_merge.merged = merged_regional_configs
    /\ (second_merge.called \/ pc = "merge_ret") =>
          /\ base_plan = merge_inputs.base_plan
          /\ new_prices = merge_inputs.prices

\* A plan of two regions and a list for one of them and for a new region: the
\* merged set of three was merged into again.
C18_Witness ==
    /\ pc = "merge_into_ret"
    /\ Len(base_plan) = 2
    /\ Len(second_merge.base_plan) = 3
    /\ \E i \in DOMAIN new_prices : HasRegion(base_plan, new_prices[i].region_iso2)
    /\ second_merge.merged = merged_regional_configs

\* C19: the merge of the rows in any other order returns the same merged set,
\* also when several rows are of one region.
C19_RowOrderIrrelevant ==
    pc = "merge_permuted_ret" => second_merge.merged = merged_regional_configs

\* No two entries of the list are of one region.
DistinctRegions(prices) ==
    \A i, j \in DOMAIN prices : prices[i].region_iso2 = prices[j].region_iso2 => i = j

\* The same for lists with one row per region.
MergeOrderIrrelevantForDistinctRegions ==
    (pc = "merge_permuted_ret" /\ DistinctRegions(new_prices)) =>
        second_merge.merged = merged_regional_configs

(***************************************************************************)
(* Properties of the conversion (SpecNormalizer).                          *)
(***************************************************************************)
\* floor((p - floor(p)) * 10^9) of the price that the text denotes: the first
\* nine digits of its fraction.
TruncatedNanos(text) == FracNanos([int |-> 0, frac |-> DecimalOf(text).frac], 1)

MaxNanos == Pow10(NanosScale) - 1

ConversionTruncates ==
    IF IsNegative(DecimalOf(price_str)) THEN units_nanos.raised
    ELSE /\ ~units_nanos.raised
         /\ units_nanos.value[1].units = DecimalOf(price_str).int
         /\ units_nanos.value[1].nanos = TruncatedNanos(price_str)
         /\ units_nanos.value[1].nanos \in 0..MaxNanos

\* C20: for every price text that denotes p >= 0 the conversion returns
\* units = floor(p) and nanos = floor((p - units) * 10^9), with
\* 0 <= nanos <= 999999999; for p < 0 it raises an error.
C20_ConversionTruncates ==
    units_nanos.called => ConversionTruncates

\* The same for prices whose fraction has at most ContextPrecision digits.
ConversionTruncatesWithinPrecision ==
    (units_nanos.called /\ Len(DecimalOf(price_str).frac) <= ContextPrecision) =>
        ConversionTruncates

(***************************************************************************)
(* Properties of the reader and the Normalizer (SpecReader).               *)
(***************************************************************************)
\* The region token of the row resolves, and its price text denotes a number
\* that is not negative.
ResolvableAndPriced(row) ==
    /\ Strip(row["Countries or Regions"]) # <<>>
    /\ \E r \in Regions : Strip(row["Countries or Regions"]) = <<Iso3(r)>>
    /\ FloatAccepts(Strip(row["Price"]))
    /\ ~IsNegative(DecimalOf(Strip(row["Price"])))

\* The currency code of the row, normalized, is not made of 3 characters.
FormatViolated(row) == Len(Upper(Strip(row["Currency Code"]))) # 3

\* The price that the row denotes.
Denoted(row) ==
    RegionalPrice(CHOOSE r \in Regions : Strip(row["Countries or Regions"]) = <<Iso3(r)>>,
                  Upper(Strip(row["Currency Code"])),
                  DecimalOf(Strip(row["Price"])).int,
                  TruncatedNanos(Strip(row["Price"])))

\* The rows of the file whose only fault is the format of the currency code.
ViolatingRows ==
    { i \in DOMAIN csv_rows :
        ResolvableAndPriced(csv_rows[i]) /\ FormatViolated(csv_rows[i]) }

\* The built prices whose currency code is not made of 3 characters.
ViolatingPrices ==
    { j \in DOMAIN regional_prices : Len(regional_prices[j].currency_code) # 3 }

\* C21: a row with a resolvable region token and a valid price that is not
\* negative, whose currency code is not made of 3 characters (the empty code
\* included), is read and built into a RegionalPrice: none is dropped.
C21_FormatViolationOnlyWarned ==
    /\ pc = "read_raised" => ViolatingRows = {}
    /\ pc = "built" =>
          /\ \A i \in ViolatingRows :
                \E j \in DOMAIN regional_prices :
                    regional_prices[j] = Denoted(csv_rows[i])
          /\ Cardinality(ViolatingPrices) = Cardinality(ViolatingRows)

\* The same for the rows whose currency code is not empty.
NonEmptyViolatingRows ==
    { i \in ViolatingRows : Upper(Strip(csv_rows[i]["Currency Code"])) # <<>> }

NonEmptyFormatViolationOnlyWarned ==
    /\ pc = "read_raised" => ViolatingRows = {}
    /\ pc = "built" =>
          /\ \A i \in NonEmptyViolatingRows :
                \E j \in DOMAIN regional_prices :
                    regional_prices[j] = Denoted(csv_rows[i])
          /\ Cardinality(ViolatingPrices) = Cardinality(NonEmptyViolatingRows)

\* read_csv_prices keeps every such row, the empty code included.
ReaderKeepsViolatingRows ==
    rows.called =>
        \A i \in ViolatingRows :
            /\ ~rows.raised
            /\ \E j \in DOMAIN rows.value[1] : rows.value[1][j] = csv_rows[i]

(***************************************************************************)
(* Properties of the choice of the recovery (Spec).                        *)
(***************************************************************************)
\* C22: a rejection whose message contains "must be between" is recovered by
\* the clamp only and removes no region from the merged set; a region is
\* removed only for a rejection that names "Region code R", and it is R.
C22_RecoveryByMessageShape ==
    HandlerRan =>
        /\ ContainsMustBeBetween(details_text) =>
              RegionCodes(merged_regional_configs) = RegionCodes(before_configs)
        /\ RegionCodes(merged_regional_configs) # RegionCodes(before_configs) =>
              /\ details_text.region_code # 0
              /\ RegionCodes(before_configs) \ RegionCodes(merged_regional_configs)
                    = {details_text.region_code}

\* The same for the rejections that the clamp can act on, and for those that
\* hold neither "must be between" nor "Price for R".
RecoveryByMessageShapeWhenClampActs ==
    (/\ HandlerRan
     /\ \/ ClampIdentifies(details_text, before_configs)
        \/ ~ContainsMustBeBetween(details_text) /\ details_text.price_for = 0) =>
        /\ ContainsMustBeBetween(details_text) =>
              RegionCodes(merged_regional_configs) = RegionCodes(before_configs)
        /\ RegionCodes(merged_regional_configs) # RegionCodes(before_configs) =>
              /\ details_text.region_code # 0
              /\ RegionCodes(before_configs) \ RegionCodes(merged_regional_configs)
                    = {details_text.region_code}

(***************************************************************************)
(* Properties of the migration batch (Spec).                               *)
(***************************************************************************)
\* The regions of the final price list: those updated by the run.
UpdatedRegions == { new_prices[i].region_iso2 : i \in DOMAIN new_prices }

RequestedRegions == { migration.requests[i] : i \in DOMAIN migration.requests }

\* C23: the migration batch holds exactly one request per region of the final
\* price list, and none for a region that the merged set only carries over
\* from the existing base plan.
C23_MigrationOnePerUpdatedRegion ==
    migration.submitted =>
        /\ RequestedRegions = UpdatedRegions
        /\ Len(migration.requests) = Cardinality(UpdatedRegions)

\* The batch holds one request per config of the merged set; it is the batch
\* of the claim when the base plan holds no region outside the price list.
MigrationOnePerMergedConfig ==
    migration.submitted =>
        /\ RequestedRegions = RegionCodes(merged_regional_configs)
        /\ Len(migration.requests) = Len(merged_regional_configs)
        /\ RegionCodes(base_plan) \subseteq UpdatedRegions =>
              /\ RequestedRegions = UpdatedRegions
              /\ Len(migration.requests) = Cardinality(UpdatedRegions)

(***************************************************************************)
(* Properties of the dry run (Spec).                                       *)
(***************************************************************************)
\* C24: without --apply no patch request and no migration request is issued,
\* no recovery runs, and the run ends after the preview with exit code 0.
C24_DryRunIssuesNoRequest ==
    ~args.apply =>
        /\ calls = <<>>
        /\ migration = NoMigration
        /\ log = <<>>
        /\ pc \in {"start", "dry_run_done"}
        /\ pc = "dry_run_done" =>
              /\ preview.printed
              /\ ExitCode = 0
              /\ ~ENABLED Next

\* A dry run with both migration flags and a batch size has ended after the
\* preview of a merged set of two configs or more.
C24_Witness ==
    /\ ~args.apply
    /\ args.migrate_existing /\ args.migrate_cutoff
    /\ args.batch_size > 0
    /\ pc = "dry_run_done"
    /\ preview.printed
    /\ Len(merged_regional_configs) >= 2

(***************************************************************************)
(* Properties of the classification of equal prices (SpecPreview).         *)
(***************************************************************************)
\* The amount of a price object: a field that the object leaves out is zero.
AmountOf(price) ==
    [units |-> IF Has(price, "units") THEN price["units"] ELSE 0,
     nanos |-> IF Has(price, "nanos") THEN price["nanos"] ELSE 0]

\* The two configs hold prices of the same currency and the same amount.
SamePrice(existing_config, config) ==
    /\ Has(existing_config, "price") /\ Has(config, "price")
    /\ existing_config["price"]["currencyCode"] = config["price"]["currencyCode"]
    /\ AmountOf(existing_config["price"]) = AmountOf(config["price"])

SameAvailability(existing_config, config) ==
    Get(existing_config, "newSubscriberAvailability") = Get(config, "newSubscriberAvailability")

\* The merged configs whose region the base plan holds with the same price.
SamePriced ==
    { i \in DOMAIN merged_regional_configs :
        /\ merged_regional_configs[i]["regionCode"] \in RegionCodes(base_plan)
        /\ SamePrice(ByRegionOf(base_plan)[merged_regional_configs[i]["regionCode"]],
                     merged_regional_configs[i]) }

\* C25: a merged config whose price is of the same currency and the same
\* amount as the existing price of its region is never in the list of price
\* changes, also when the existing price leaves out a field of value zero;
\* with the same availability it is in the list of unchanged configs.
C25_EqualPriceNotPriceChanged ==
    preview.printed =>
        \A i \in SamePriced :
            LET config == merged_regional_configs[i]
                existing_config == ByRegionOf(base_plan)[config["regionCode"]]
            IN /\ ~InList(preview.price_changes, config["regionCode"])
               /\ SameAvailability(existing_config, config) =>
                     InList(preview.no_changes, config["regionCode"])

\* The same for the existing prices that hold their three fields.
EqualFullPriceNotPriceChanged ==
    preview.printed =>
        \A i \in SamePriced :
            LET config == merged_regional_configs[i]
                existing_config == ByRegionOf(base_plan)[config["regionCode"]]
            IN (Has(existing_config["price"], "units") /\ Has(existing_config["price"], "nanos")) =>
                  /\ ~InList(preview.price_changes, config["regionCode"])
                  /\ SameAvailability(existing_config, config) =>
                        InList(preview.no_changes, config["regionCode"])
====
